---- MODULE Spec2Model ----
(***************************************************************************)
(* A model of the asynchronous SQLite metadata store of                    *)
(* backend/src/implementations/sqlite_metadata_store.py.                   *)
(*                                                                         *)
(* The state is the store object (_initialized, _conn), the database file  *)
(* (db, the committed rows of the documents table), the held connection's  *)
(* view of the table (view, with pending true while the connection holds   *)
(* a write it has not committed), the number of connections open on the    *)
(* file, and the last call made on the store with its arguments and its    *)
(* outcome (last).                                                         *)
(*                                                                         *)
(* Each handler is one action.  Storage faults are injected where the      *)
(* code handles them: in the write and the commit of update and delete     *)
(* (except aiosqlite.Error) and in the two awaits of initialize.           *)
(*                                                                         *)
(* The file also has a schema (the columns of its documents table), which  *)
(* the store's initialize and the Flask application's init-db command      *)
(* create when it is absent.  The remaining variables belong to the other  *)
(* components, each with a specification of its own: the row handed to     *)
(* _row_to_document (row_arg), the document service over MockVectorDB      *)
(* (vectors, with added recording the add_document calls), the             *)
(* MockDocumentStore (documents_content, saved_paths, with last_saved      *)
(* recording the saves and deletes) and the MockVectorStore (chunks,       *)
(* embeddings).  Three more belong to specifications of the store's        *)
(* callers: the calls two tasks have in progress on one store, with the    *)
(* connections opened (tasks, connections), the MockMetadataStore run      *)
(* beside the store (mock_metadata, mock_last), and the pages listed of    *)
(* one query (pages).                                                      *)
(***************************************************************************)
EXTENDS Integers, Sequences, FiniteSets, TLC

VARIABLES _initialized, _conn, open_conns, db, view, pending, faults, last,
          schema, row_arg, vectors, added, documents_content, saved_paths,
          last_saved, chunks, embeddings, tasks, connections, mock_metadata,
          mock_last, pages

vars == <<_initialized, _conn, open_conns, db, view, pending, faults, last,
          schema, row_arg, vectors, added, documents_content, saved_paths,
          last_saved, chunks, embeddings, tasks, connections, mock_metadata,
          mock_last, pages>>

\* The state of the metadata store object and of its connection.
store == <<_initialized, _conn, open_conns, view, pending, faults>>

\* The calls in progress on the store when its callers overlap them, with
\* the connections opened so far; the MockMetadataStore with the result of
\* its last call; and the pages a caller has listed of one query.
overlap == <<tasks, connections, mock_metadata, mock_last, pages>>

\* The state outside the store: the row handed to the conversion on its
\* own, and the in-memory components.
components ==
    <<row_arg, vectors, added, documents_content, saved_paths, last_saved,
      chunks, embeddings>>

outside == <<components, overlap>>

(***************************************************************************)
(* Bounds.                                                                 *)
(***************************************************************************)
\* Storage faults injected in one behaviour.
MaxFaults == 1

(***************************************************************************)
(* Python and SQL values.                                                  *)
(***************************************************************************)
\* Python's None, as a field of a Document or as self._conn.
None == "None"
\* SQL NULL, as a column of a row.
NULL == "NULL"

\* A Python value passed in an updates or filters dict: a str, a
\* DocumentType member, or None.
PyStr(s) == [py |-> "str", v |-> s]
PyEnum(m) == [py |-> "DocumentType", v |-> m]
PyNone == [py |-> "NoneType", v |-> None]

\* models.DocumentType: member name -> value.
DocumentTypeValue ==
    [m \in {"PDF", "DOCX", "HTML", "TXT", "MD"} |->
        CASE m = "PDF" -> "pdf"
          [] m = "DOCX" -> "docx"
          [] m = "HTML" -> "html"
          [] m = "TXT" -> "txt"
          [] m = "MD" -> "md"]

DocumentTypeMembers == DOMAIN DocumentTypeValue

\* DocumentType(code): the member whose value is code; "ValueError" when no
\* member has it.
DocumentType(code) ==
    IF \E m \in DocumentTypeMembers : DocumentTypeValue[m] = code
    THEN CHOOSE m \in DocumentTypeMembers : DocumentTypeValue[m] = code
    ELSE "ValueError"

(***************************************************************************)
(* datetime and its ISO-8601 text.  A datetime is [sec, usec, tz]; its     *)
(* text is a sequence of tokens, the way isoformat() writes it: seconds,   *)
(* then the fraction only when usec is not 0, then the UTC offset only     *)
(* when the datetime is timezone-aware.                                    *)
(***************************************************************************)
Tok(k, n) == [k |-> k, n |-> n]

Naive == "naive"
UTC == "+00:00"
\* A fixed offset east of UTC, in the unit of sec.
East == "+00:00:04"

\* tzinfo.utcoffset, and the tzinfo that fromisoformat builds from an offset.
utcoffset(tz) == IF tz = East THEN 4 ELSE 0
tzinfo(n) == IF n = 0 THEN UTC ELSE East

datetime(sec, usec, tz) == [sec |-> sec, usec |-> usec, tz |-> tz]

\* A column value: its storage class and its content.
SqlText(toks) == [ty |-> "text", toks |-> toks]
SqlNum(n) == [ty |-> "num", toks |-> <<Tok("num", n)>>]
SqlBlob(toks) == [ty |-> "blob", toks |-> toks]
SqlNull == [ty |-> "null", toks |-> <<>>]
\* A value the row already holds as a datetime object.
SqlTimestamp(dt) == [ty |-> "datetime", toks |-> <<dt>>]

\* A faulty isoformat, as with timespec="seconds": the fraction is dropped.
isoformat_seconds(dt) ==
    <<Tok("sec", dt.sec)>>
        \o (IF dt.tz # Naive THEN <<Tok("off", utcoffset(dt.tz))>> ELSE <<>>)

isoformat(dt) ==
    <<Tok("sec", dt.sec)>>
        \o (IF dt.usec # 0 THEN <<Tok("usec", dt.usec)>> ELSE <<>>)
        \o (IF dt.tz # Naive THEN <<Tok("off", utcoffset(dt.tz))>> ELSE <<>>)

\* datetime.fromisoformat: "ValueError" on text that is not ISO-8601.
IsIsoText(toks) ==
    /\ Len(toks) \in 1..3
    /\ toks[1].k = "sec"
    /\ Len(toks) = 2 => toks[2].k \in {"usec", "off"}
    /\ Len(toks) = 3 => toks[2].k = "usec" /\ toks[3].k = "off"

\* An exception raised instead of a value.
Raise(e) == [exc |-> e]
IsRaise(x) == DOMAIN x = {"exc"}

fromisoformat(toks) ==
    IF ~IsIsoText(toks) THEN Raise("ValueError")
    ELSE datetime(toks[1].n,
                  IF Len(toks) >= 2 /\ toks[2].k = "usec" THEN toks[2].n ELSE 0,
                  IF toks[Len(toks)].k = "off"
                  THEN tzinfo(toks[Len(toks)].n) ELSE Naive)

\* datetime.fromtimestamp: epoch seconds to a naive local datetime (the
\* local zone is taken to be UTC).
fromtimestamp(n) == datetime(n, 0, Naive)

(***************************************************************************)
(* Documents and rows.                                                     *)
(***************************************************************************)
\* models.Document.  metadata is a set of <<key, value>> pairs.
Document(id, title, author, publication_date, document_type, date_added, file_path, metadata, source) ==
    [id |-> id, title |-> title, author |-> author,
     publication_date |-> publication_date, document_type |-> document_type,
     date_added |-> date_added, file_path |-> file_path,
     metadata |-> metadata, source |-> source]

\* A row of the documents table.  date_added is a column value with its
\* storage class; the six other columns are text or NULL.
Row(id, title, author, publication_date, document_type, date_added, file_path) ==
    [id |-> id, title |-> title, author |-> author,
     publication_date |-> publication_date, document_type |-> document_type,
     date_added |-> date_added, file_path |-> file_path]

\* Binding a Python str or None to a statement parameter, and reading a
\* text or NULL column back.
bind_param(x) == IF x = None THEN NULL ELSE x
column_value(c) == IF c = NULL THEN None ELSE c

\* Binding a value of an updates or filters dict.  A DocumentType member is
\* a str subclass and binds as its value.
bind_value(pv) ==
    CASE pv.py = "NoneType" -> NULL
      [] pv.py = "DocumentType" -> DocumentTypeValue[pv.v]
      [] OTHER -> pv.v

\* An Optional[Document]: <<>> is None, <<d>> is the document d.
NoDocument == <<>>

\* A faulty date parse that substitutes the epoch for text it cannot parse.
date_added_dt_defaulting(date_added_val) ==
    CASE date_added_val.ty = "text" ->
            LET d == fromisoformat(date_added_val.toks)
            IN  IF IsRaise(d) THEN [out |-> "dt", dt |-> <<datetime(0, 0, Naive)>>]
                ELSE [out |-> "dt", dt |-> <<d>>]
      [] date_added_val.ty = "num" ->
            [out |-> "dt", dt |-> <<fromtimestamp(date_added_val.toks[1].n)>>]
      [] date_added_val.ty = "datetime" ->
            [out |-> "dt", dt |-> <<date_added_val.toks[1]>>]
      [] OTHER ->
            [out |-> "none", dt |-> <<>>]

\* A faulty date parse that takes ISO text only.
date_added_dt_text_only(date_added_val) ==
    CASE date_added_val.ty = "text" ->
            LET d == fromisoformat(date_added_val.toks)
            IN  IF IsRaise(d) THEN [out |-> "raise", dt |-> <<>>]
                ELSE [out |-> "dt", dt |-> <<d>>]
      [] OTHER ->
            [out |-> "none", dt |-> <<>>]

\* Lines 125-145: the datetime of a stored date_added.  out is "dt" with
\* the datetime, "raise" when the parse raises inside the outer try, or
\* "none" when the inner except returns None.
date_added_dt(date_added_val) ==
    CASE date_added_val.ty = "text" ->
            LET d == fromisoformat(date_added_val.toks)
            IN  IF IsRaise(d) THEN [out |-> "raise", dt |-> <<>>]
                ELSE [out |-> "dt", dt |-> <<d>>]
      [] date_added_val.ty = "num" ->
            [out |-> "dt", dt |-> <<fromtimestamp(date_added_val.toks[1].n)>>]
      [] date_added_val.ty = "datetime" ->
            [out |-> "dt", dt |-> <<date_added_val.toks[1]>>]
      [] OTHER ->
            \* str(value) of a value of any other type is never ISO text
            [out |-> "none", dt |-> <<>>]

\* Lines 124-157, the body of the try: out is "doc", "none" or "raise".
row_conversion(row) ==
    LET d == date_added_dt(row.date_added)
        t == DocumentType(row.document_type)
    IN  CASE d.out = "none" -> [out |-> "none", doc |-> NoDocument]
          [] d.out = "raise" -> [out |-> "raise", doc |-> NoDocument]
          [] t = "ValueError" -> [out |-> "raise", doc |-> NoDocument]
          [] row.id = NULL \/ row.title = NULL ->
                \* pydantic rejects None for a required str field
                [out |-> "raise", doc |-> NoDocument]
          [] OTHER ->
                [out |-> "doc",
                 doc |-> <<Document(row.id, row.title,
                                    column_value(row.author),
                                    column_value(row.publication_date),
                                    t, d.dt[1],
                                    column_value(row.file_path),
                                    {}, None)>>]

\* A faulty conversion without the except: what the try body raises escapes.
row_to_document_unguarded(row) == row_conversion(row)

\* A faulty conversion that fills source in.
row_to_document_with_source(row) ==
    LET c == row_conversion(row)
    IN  IF c.out # "doc" THEN [out |-> "none", doc |-> NoDocument]
        ELSE [out |-> "doc", doc |-> <<[c.doc[1] EXCEPT !.source = "database"]>>]

\* _row_to_document: the try with its except Exception, which logs and
\* returns None.
_row_to_document(row) ==
    LET c == row_conversion(row)
    IN  IF c.out = "raise" THEN [out |-> "none", doc |-> NoDocument] ELSE c

(***************************************************************************)
(* The documents table and its statements.  A table is a set of rows; the  *)
(* constraints are those of the CREATE TABLE statement.                    *)
(***************************************************************************)
NotNullColumns == {"title", "document_type"}

\* A faulty INSERT, as INSERT OR REPLACE: a row with the same id is replaced.
sql_insert_or_replace(rows, r) ==
    IF \E c \in NotNullColumns : r[c] = NULL
    THEN [err |-> "IntegrityError", rows |-> rows, rowcount |-> 0]
    ELSE [err |-> "", rows |-> {x \in rows : x.id # r.id} \cup {r},
          rowcount |-> 1]

\* INSERT INTO documents: err is "IntegrityError" on a duplicate primary
\* key or a NULL in a NOT NULL column.
sql_insert(rows, r) ==
    IF \/ \E x \in rows : x.id = r.id
       \/ \E c \in NotNullColumns : r[c] = NULL
    THEN [err |-> "IntegrityError", rows |-> rows, rowcount |-> 0]
    ELSE [err |-> "", rows |-> rows \cup {r}, rowcount |-> 1]

\* UPDATE documents SET <sets> WHERE id = ?.  sets maps columns to values.
sql_update(rows, sets, id) ==
    LET hit == {r \in rows : r.id = id}
        upd(r) == [c \in DOMAIN r |-> IF c \in DOMAIN sets THEN sets[c] ELSE r[c]]
    IN  IF hit # {} /\ \E c \in NotNullColumns \cap DOMAIN sets : sets[c] = NULL
        THEN [err |-> "IntegrityError", rows |-> rows, rowcount |-> 0]
        ELSE [err |-> "", rows |-> (rows \ hit) \cup {upd(r) : r \in hit},
              rowcount |-> Cardinality(hit)]

\* DELETE FROM documents WHERE id = ?
sql_delete(rows, id) ==
    LET hit == {r \in rows : r.id = id}
    IN  [err |-> "", rows |-> rows \ hit, rowcount |-> Cardinality(hit)]

\* SELECT * FROM documents WHERE id = ?, then fetchone: <<>> or <<row>>.
sql_fetchone(rows, id) ==
    IF \E r \in rows : r.id = id
    THEN <<CHOOSE r \in rows : r.id = id>>
    ELSE <<>>

(***************************************************************************)
(* The inputs of the calls.                                                *)
(***************************************************************************)
Ids == {"a", "b"}

\* Two documents: one with every field set, a timezone-aware
\* date_added with microseconds, metadata and a source; one with the
\* optional fields unset and a naive date_added on a whole second.
DocAlpha(id) ==
    Document(id, "Alpha", "Author One", "2023-01-15", "TXT",
             datetime(5, 123, UTC), "/alpha.txt",
             {<<"custom_key", "value1">>}, "test_upload")

DocBeta(id) ==
    Document(id, "Beta", None, None, "PDF",
             datetime(7, 0, Naive), None, {}, None)

Docs == {DocAlpha("a"), DocBeta("b")}

\* The updates dicts, as functions from keys to Python values.
UpdNone == <<>>
UpdNoValid == [k \in {"invalid_field", "id"} |->
                  IF k = "id" THEN PyStr("b") ELSE PyStr("some_value")]
UpdAll ==
    [k \in {"title", "author", "publication_date", "document_type", "file_path"} |->
        CASE k = "title" -> PyStr("Gamma")
          [] k = "author" -> PyStr("Author Two")
          [] k = "publication_date" -> PyStr("2024")
          [] k = "document_type" -> PyEnum("MD")
          [] k = "file_path" -> PyStr("/gamma.md")]
UpdMixed ==
    [k \in {"id", "date_added", "metadata", "source", "author"} |->
        CASE k = "id" -> PyStr("b")
          [] k = "author" -> PyNone
          [] OTHER -> PyStr("x")]
UpdTypeBogus == [k \in {"document_type"} |-> PyStr("bogus")]
UpdTitleNone == [k \in {"title"} |-> PyNone]

Updates ==
    {UpdNone, UpdNoValid, UpdAll, UpdMixed, UpdTypeBogus, UpdTitleNone}

\* The database file before the store first opens it: absent or empty, or
\* holding a row written earlier whose date_added is not ISO text.
LegacyBadDate ==
    Row("b", "Old", NULL, NULL, "pdf", SqlText(<<Tok("junk", 0)>>), NULL)

InitialTables == {{}, {LegacyBadDate}}

(***************************************************************************)
(* The record of a call: what was called, with what, and what came back.   *)
(* res.kind is "returned" (a None return of add, initialize or close),     *)
(* "None" or "Document" (an Optional[Document]), "list", "True", "False",  *)
(* or the exception raised; res.docs holds the documents returned.         *)
(***************************************************************************)
NoParams == [filters |-> <<>>, offset |-> 0, limit |-> 0, sort_by |-> None,
             sort_order |-> ""]

Result(kind, docs) == [kind |-> kind, docs |-> docs]

Returned == Result("returned", <<>>)
Raised(e) == Result(e, <<>>)
Optional(d) == Result(IF d = NoDocument THEN "None" ELSE "Document", d)
Bool(b) == Result(IF b THEN "True" ELSE "False", <<>>)

Call(op, id, doc, updates, params, fault, res) ==
    [op |-> op, id |-> id, doc |-> doc, updates |-> updates,
     params |-> params, fault |-> fault, res |-> res]

NoCall == Call("", "", <<>>, <<>>, NoParams, "", Returned)

(***************************************************************************)
(* list_documents_metadata: the query it builds and what the query returns.*)
(***************************************************************************)
FilterColumns == {"id", "title", "author", "publication_date", "file_path"}
\* A faulty sortable set that also lets file_path through.
SortColumnsAndFilePath ==
    {"id", "title", "author", "publication_date", "document_type", "date_added",
     "file_path"}

SortColumns ==
    {"id", "title", "author", "publication_date", "document_type", "date_added"}

\* A faulty filter loop that keeps the entries whose value is None.
where_conditions_keep_none(filters) ==
    LET kept == {k \in DOMAIN filters :
                    \/ k = "document_type" /\ filters[k].py = "DocumentType"
                    \/ k \in FilterColumns}
    IN  [k \in kept |-> bind_value(filters[k])]

\* Lines 216-233: the conditions of the WHERE clause, column -> parameter.
where_conditions(filters) ==
    LET kept == {k \in DOMAIN filters :
                    /\ filters[k].py # "NoneType"
                    /\ \/ k = "document_type" /\ filters[k].py = "DocumentType"
                       \/ k \in FilterColumns}
    IN  [k \in kept |-> bind_value(filters[k])]

\* col = ? is true of a row only when the column is not NULL and equal.
row_matches(row, conds) ==
    \A k \in DOMAIN conds : row[k] # NULL /\ row[k] = conds[k]

\* str.lower on the sort orders used.
lower(s) ==
    CASE s \in {"desc", "DESC", "Desc"} -> "desc"
      [] s \in {"asc", "ASC"} -> "asc"
      [] OTHER -> s

\* The strings of the model in the order of SQLite's BINARY collation.
Collation ==
    <<"/alpha.txt", "/gamma.md", "2023-01-15", "2024", "Alpha", "Author One",
      "Author Two", "Beta", "Gamma", "Old", "a", "b", "bogus", "c", "docx", "html",
      "md", "pdf", "txt">>

TextRank(s) == CHOOSE i \in 1..Len(Collation) : Collation[i] = s

\* The sort key of a column: a tuple of numbers compared left to right.
\* NULL sorts first, then numbers, then text, then blobs.  ISO text sorts
\* by its seconds, then by what follows them: nothing, an offset ("+"),
\* or a fraction (".").
TokRank(toks, i) ==
    IF Len(toks) < i THEN 0 ELSE IF toks[i].k = "off" THEN 1 ELSE 2

sort_key(row, col) ==
    IF col = "date_added"
    THEN LET v == row.date_added
         IN  CASE v.ty = "num" -> <<1, v.toks[1].n, 0, 0, 0, 0>>
               [] v.ty = "blob" -> <<3, 0, 0, 0, 0, 0>>
               [] v.toks[1].k # "sec" -> <<2, 1, 0, 0, 0, 0>>
               [] OTHER -> <<2, 0, v.toks[1].n, TokRank(v.toks, 2),
                             IF Len(v.toks) >= 2 THEN v.toks[2].n ELSE 0,
                             IF Len(v.toks) >= 3 THEN 1 + v.toks[3].n ELSE 0>>
    ELSE IF row[col] = NULL THEN <<0, 0, 0, 0, 0, 0>>
         ELSE <<2, TextRank(row[col]), 0, 0, 0, 0>>

key_less(x, y) ==
    \E i \in 1..6 : x[i] < y[i] /\ \A j \in 1..(i - 1) : x[j] = y[j]

\* Every order in which the rows of a set can come back.
Orderings(S) ==
    {s \in [1..Cardinality(S) -> S] :
        \A i, j \in 1..Cardinality(S) : i # j => s[i] # s[j]}

\* Lines 235-244: the ORDER BY clause appended to the query, <<column,
\* direction>>, or <<>> when none is appended.
order_by(sort_by, sort_order) ==
    IF sort_by \in SortColumns
    THEN <<sort_by, IF lower(sort_order) = "desc" THEN "DESC" ELSE "ASC">>
    ELSE <<>>

\* The orders ORDER BY allows; without it, any order.
ordered_rows(S, sort_by, sort_order) ==
    LET ob == order_by(sort_by, sort_order)
    IN  IF ob = <<>> THEN Orderings(S)
        ELSE {s \in Orderings(S) :
                \A i, j \in 1..Len(s) : i < j =>
                    IF ob[2] = "DESC"
                    THEN ~key_less(sort_key(s[i], ob[1]), sort_key(s[j], ob[1]))
                    ELSE ~key_less(sort_key(s[j], ob[1]), sort_key(s[i], ob[1]))}

\* A faulty LIMIT ? OFFSET ? whose two parameters are bound the other way.
limit_offset_swapped(s, limit, offset) ==
    LET from == IF limit < 0 THEN 0 ELSE limit
        upto == IF offset < 0 \/ from + offset > Len(s) THEN Len(s) ELSE from + offset
    IN  SubSeq(s, from + 1, upto)

\* LIMIT ? OFFSET ?: a negative limit is no limit, a negative offset is 0.
limit_offset(s, limit, offset) ==
    LET from == IF offset < 0 THEN 0 ELSE offset
        upto == IF limit < 0 \/ from + limit > Len(s) THEN Len(s) ELSE from + limit
    IN  SubSeq(s, from + 1, upto)

\* A faulty conversion of a page that returns nothing when a row fails.
converted_all_or_nothing(rows) ==
    IF \E i \in 1..Len(rows) : _row_to_document(rows[i]).doc = NoDocument
    THEN <<>>
    ELSE [i \in 1..Len(rows) |-> _row_to_document(rows[i]).doc[1]]

\* Lines 252-256: the rows converted, those that do not convert dropped.
RECURSIVE converted(_)
converted(rows) ==
    IF rows = <<>> THEN <<>>
    ELSE _row_to_document(Head(rows)).doc \o converted(Tail(rows))

\* The lists a call may return from a table.
list_documents(rows, p) ==
    LET conds == where_conditions(p.filters)
        hit == {r \in rows : row_matches(r, conds)}
    IN  {converted(limit_offset(s, p.limit, p.offset)) :
            s \in ordered_rows(hit, p.sort_by, p.sort_order)}

ListParams(filters, offset, limit, sort_by, sort_order) ==
    [filters |-> filters, offset |-> offset, limit |-> limit,
     sort_by |-> sort_by, sort_order |-> sort_order]

ListCalls ==
    {ListParams(<<>>, 0, 100, None, "desc"),
     ListParams([k \in {"document_type"} |-> PyEnum("PDF")], 0, 100, "title", "asc"),
     ListParams([k \in {"document_type", "bogus", "title"} |->
                    CASE k = "document_type" -> PyStr("pdf")
                      [] k = "title" -> PyNone
                      [] OTHER -> PyStr("x")], 0, 100, "file_path", "desc"),
     ListParams(<<>>, 1, 1, "id", "DESC")}

(***************************************************************************)
(* The store: initialize, close and the guard of the CRUD methods.         *)
(***************************************************************************)
Connection == "Connection"

\* The documents table of the database file: its columns, none when the
\* file has no such table.
NoTable == {}

StoreColumns ==
    {"id", "title", "author", "publication_date", "document_type",
     "date_added", "file_path"}

\* CREATE TABLE IF NOT EXISTS documents (columns): an existing table keeps
\* the columns it has.
create_table_if_not_exists(table, columns) ==
    IF table = NoTable THEN columns ELSE table

\* No call in progress, and an empty MockMetadataStore.
OverlapIdle ==
    /\ tasks = <<>>
    /\ connections = <<>>
    /\ mock_metadata = <<>>
    /\ mock_last = <<>>
    /\ pages = <<>>

\* No row under conversion, and the in-memory components as constructed.
OutsideIdle ==
    /\ OverlapIdle
    /\ row_arg = <<>>
    /\ vectors = <<>>
    /\ added = <<>>
    /\ documents_content = <<>>
    /\ saved_paths = {}
    /\ last_saved = <<>>
    /\ chunks = <<>>
    /\ embeddings = <<>>

Init ==
    /\ _initialized = FALSE
    /\ _conn = None
    /\ open_conns = 0
    /\ db \in InitialTables
    /\ schema = (IF db = {} THEN NoTable ELSE StoreColumns)
    /\ view = db
    /\ pending = FALSE
    /\ faults = 0
    /\ last = NoCall
    /\ OutsideIdle

\* A faulty guard that looks only at the connection.
ensure_connection_only == _conn # None

\* _ensure_initialized returns (TRUE) or raises RuntimeError (FALSE).
_ensure_initialized == _initialized /\ _conn # None

\* A faulty table creation that drops the table it finds.
create_metadata_tables_dropping(rows) == {}

\* CREATE TABLE IF NOT EXISTS documents, then commit: the rows of the file
\* afterwards.
create_metadata_tables(rows) == rows

\* The faults a storage call may end in, while the budget lasts.
FaultChoices(kinds) == {""} \cup (IF faults < MaxFaults THEN kinds ELSE {})

Fault(f) == faults' = IF f = "" THEN faults ELSE faults + 1

\* What initialize does when it does not return at once: it connects,
\* stores the connection, creates the tables and sets the flag.  fault is
\* "connect" or "create" when that await raises.
initialize_effect(fault) ==
    CASE fault = "connect" ->
            [conn |-> _conn, opened |-> 0, initialized |-> _initialized,
             table |-> schema, rows |-> db,
             res |-> Raised("OperationalError")]
      [] fault = "create" ->
            [conn |-> Connection, opened |-> 1, initialized |-> _initialized,
             table |-> schema, rows |-> db,
             res |-> Raised("OperationalError")]
      [] OTHER ->
            [conn |-> Connection, opened |-> 1, initialized |-> TRUE,
             table |-> create_table_if_not_exists(schema, StoreColumns),
             rows |-> create_metadata_tables(db), res |-> Returned]

\* A faulty initialize without the early return of an initialized store.
initialize_reconnects ==
    \E f \in FaultChoices({"connect", "create"}) :
        LET e == initialize_effect(f)
        IN  /\ _conn' = e.conn
            /\ open_conns' = open_conns + e.opened
            /\ _initialized' = e.initialized
            /\ schema' = e.table
            /\ db' = e.rows
            /\ view' = e.rows
            /\ pending' = FALSE
            /\ Fault(f)
            /\ last' = Call("initialize", "", <<>>, <<>>, NoParams, f, e.res)
            /\ UNCHANGED outside

initialize ==
    IF _initialized
    THEN /\ last' = Call("initialize", "", <<>>, <<>>, NoParams, "", Returned)
         /\ UNCHANGED <<_initialized, _conn, open_conns, db, view, pending,
                        faults, schema, outside>>
    ELSE \E f \in FaultChoices({"connect", "create"}) :
            LET e == initialize_effect(f)
            IN  /\ _conn' = e.conn
                /\ open_conns' = open_conns + e.opened
                /\ _initialized' = e.initialized
                /\ schema' = e.table
                /\ db' = e.rows
                /\ view' = e.rows
                /\ pending' = FALSE
                /\ Fault(f)
                /\ last' = Call("initialize", "", <<>>, <<>>, NoParams, f, e.res)
                /\ UNCHANGED outside

\* A faulty close that releases the connection but leaves the flag set.
close_keeps_initialized ==
    /\ IF _conn # None
       THEN /\ open_conns' = open_conns - 1
            /\ _conn' = None
            /\ view' = db
            /\ pending' = FALSE
            /\ UNCHANGED _initialized
       ELSE UNCHANGED <<_initialized, _conn, open_conns, view, pending>>
    /\ last' = Call("close", "", <<>>, <<>>, NoParams, "", Returned)
    /\ UNCHANGED <<db, faults, schema, outside>>

\* close: closing the connection discards what it had not committed.
close ==
    /\ IF _conn # None
       THEN /\ open_conns' = open_conns - 1
            /\ _conn' = None
            /\ _initialized' = FALSE
            /\ view' = db
            /\ pending' = FALSE
       ELSE UNCHANGED <<_initialized, _conn, open_conns, view, pending>>
    /\ last' = Call("close", "", <<>>, <<>>, NoParams, "", Returned)
    /\ UNCHANGED <<db, faults, schema, outside>>

\* A CRUD call on a store that is not initialized: RuntimeError, nothing else.
Uninitialized(op, id, doc, updates, params) ==
    /\ last' = Call(op, id, doc, updates, params, "", Raised("RuntimeError"))
    /\ UNCHANGED <<_initialized, _conn, open_conns, db, view, pending, faults>>

(***************************************************************************)
(* The CRUD methods.  Each effect is what the method does to the table the *)
(* connection sees (rows), whether it leaves a write uncommitted (dirty),  *)
(* what it commits (commit: TRUE when the file takes the connection's      *)
(* rows), and what it returns.                                             *)
(***************************************************************************)
Effect(rows, dirty, commit, res) ==
    [rows |-> rows, dirty |-> dirty, commit |-> commit, res |-> res]

Apply(e) ==
    /\ view' = e.rows
    /\ pending' = e.dirty
    /\ db' = IF e.commit THEN e.rows ELSE db
    /\ UNCHANGED <<_initialized, _conn, open_conns>>

\* Lines 194-200.
get_document(rows, document_id) ==
    LET row == sql_fetchone(rows, document_id)
    IN  IF row = <<>> THEN Optional(NoDocument)
        ELSE LET c == _row_to_document(row[1])
             IN  IF c.out = "raise" THEN Raised("Exception") ELSE Optional(c.doc)

get_document_metadata(document_id) ==
    IF ~_ensure_initialized
    THEN Uninitialized("get", document_id, <<>>, <<>>, NoParams)
    ELSE /\ last' = Call("get", document_id, <<>>, <<>>, NoParams, "",
                         get_document(view, document_id))
         /\ UNCHANGED <<_initialized, _conn, open_conns, db, view, pending, faults>>

list_documents_metadata(p) ==
    IF ~_ensure_initialized
    THEN Uninitialized("list", "", <<>>, <<>>, p)
    ELSE /\ \E docs \in list_documents(view, p) :
                last' = Call("list", "", <<>>, <<>>, p, "", Result("list", docs))
         /\ UNCHANGED <<_initialized, _conn, open_conns, db, view, pending, faults>>

\* Lines 170-189: INSERT, then commit; IntegrityError is logged and raised.
\* An INSERT that names a column the table does not have is refused with
\* OperationalError, which the method does not catch.
document_row(document) ==
    Row(document.id, document.title, bind_param(document.author),
        bind_param(document.publication_date),
        DocumentTypeValue[document.document_type],
        SqlText(isoformat(document.date_added)),
        bind_param(document.file_path))

add_effect(document) ==
    LET ins == sql_insert(view, document_row(document))
    IN  IF ~(StoreColumns \subseteq schema)
        THEN Effect(view, pending, FALSE, Raised("OperationalError"))
        ELSE IF ins.err # ""
        THEN Effect(view, pending, FALSE, Raised(ins.err))
        ELSE Effect(ins.rows, FALSE, TRUE, Returned)

add_document_metadata(document) ==
    IF ~_ensure_initialized
    THEN Uninitialized("add", document.id, <<document>>, <<>>, NoParams)
    ELSE LET e == add_effect(document)
         IN  /\ Apply(e)
             /\ last' = Call("add", document.id, <<document>>, <<>>, NoParams, "", e.res)
             /\ UNCHANGED faults

\* A faulty whitelist that lets id through.
allowed_fields_with_id ==
    {"id", "title", "author", "publication_date", "document_type", "file_path"}

\* Lines 264-280: the SET clause, column -> parameter, of the keys of
\* updates that are allowed fields.
allowed_fields ==
    {"title", "author", "publication_date", "document_type", "file_path"}

\* A faulty filter that forgets file_path.
fields_to_update_no_file_path(updates) ==
    [k \in DOMAIN updates \cap (allowed_fields \ {"file_path"}) |->
        bind_value(updates[k])]

\* A faulty filter that writes nothing when any key is not allowed.
fields_to_update_strict(updates) ==
    [k \in (IF DOMAIN updates \subseteq allowed_fields THEN DOMAIN updates ELSE {}) |->
        bind_value(updates[k])]

fields_to_update(updates) ==
    [k \in DOMAIN updates \cap allowed_fields |-> bind_value(updates[k])]

WriteFaults == {"execute", "commit_busy", "commit_lost"}

\* Lines 282-303.  fault names the await that raises aiosqlite.Error:
\* "execute" before the statement changes anything; "commit_busy" with the
\* transaction left open on the connection; "commit_lost" with the
\* transaction rolled back by the engine.  A commit can fail only when the
\* transaction holds a write.
update_effect(document_id, updates, fault) ==
    LET sets == fields_to_update(updates)
        u == sql_update(view, sets, document_id)
        dirty == pending \/ u.rowcount > 0
    IN  CASE DOMAIN sets = {} ->
                Effect(view, pending, FALSE, get_document(view, document_id))
          [] fault = "execute" ->
                Effect(view, pending, FALSE, Optional(NoDocument))
          [] u.err # "" ->
                Effect(view, pending, FALSE, Optional(NoDocument))
          [] fault = "commit_busy" /\ dirty ->
                Effect(u.rows, TRUE, FALSE, Optional(NoDocument))
          [] fault = "commit_lost" /\ dirty ->
                Effect(db, FALSE, FALSE, Optional(NoDocument))
          [] u.rowcount = 0 ->
                Effect(u.rows, FALSE, TRUE, Optional(NoDocument))
          [] OTHER ->
                Effect(u.rows, FALSE, TRUE, get_document(u.rows, document_id))

\* The fault can happen in this call.
update_fault(document_id, updates, fault) ==
    LET sets == fields_to_update(updates)
        u == sql_update(view, sets, document_id)
    IN  \/ fault = ""
        \/ /\ DOMAIN sets # {}
           /\ \/ fault = "execute"
              \/ fault \in {"commit_busy", "commit_lost"}
                    /\ u.err = "" /\ (pending \/ u.rowcount > 0)

update_document_metadata(document_id, updates) ==
    IF ~_ensure_initialized
    THEN Uninitialized("update", document_id, <<>>, updates, NoParams)
    ELSE \E f \in FaultChoices(WriteFaults) :
            /\ update_fault(document_id, updates, f)
            /\ Apply(update_effect(document_id, updates, f))
            /\ Fault(f)
            /\ last' = Call("update", document_id, <<>>, updates, NoParams, f,
                            update_effect(document_id, updates, f).res)

\* A faulty delete whose except clause re-raises the storage error.
delete_effect_reraising(document_id, fault) ==
    LET d == sql_delete(view, document_id)
        dirty == pending \/ d.rowcount > 0
    IN  CASE fault = "execute" ->
                Effect(view, pending, FALSE, Raised("OperationalError"))
          [] fault = "commit_busy" /\ dirty ->
                Effect(d.rows, TRUE, FALSE, Raised("OperationalError"))
          [] fault = "commit_lost" /\ dirty ->
                Effect(db, FALSE, FALSE, Raised("OperationalError"))
          [] OTHER ->
                Effect(d.rows, FALSE, TRUE, Bool(d.rowcount > 0))

\* Lines 308-318.
delete_effect(document_id, fault) ==
    LET d == sql_delete(view, document_id)
        dirty == pending \/ d.rowcount > 0
    IN  CASE fault = "execute" ->
                Effect(view, pending, FALSE, Bool(FALSE))
          [] fault = "commit_busy" /\ dirty ->
                Effect(d.rows, TRUE, FALSE, Bool(FALSE))
          [] fault = "commit_lost" /\ dirty ->
                Effect(db, FALSE, FALSE, Bool(FALSE))
          [] OTHER ->
                Effect(d.rows, FALSE, TRUE, Bool(d.rowcount > 0))

delete_fault(document_id, fault) ==
    \/ fault \in {"", "execute"}
    \/ fault \in {"commit_busy", "commit_lost"}
          /\ (pending \/ sql_delete(view, document_id).rowcount > 0)

delete_document_metadata(document_id) ==
    IF ~_ensure_initialized
    THEN Uninitialized("delete", document_id, <<>>, <<>>, NoParams)
    ELSE \E f \in FaultChoices(WriteFaults) :
            /\ delete_fault(document_id, f)
            /\ Apply(delete_effect(document_id, f))
            /\ Fault(f)
            /\ last' = Call("delete", document_id, <<>>, <<>>, NoParams, f,
                            delete_effect(document_id, f).res)

(***************************************************************************)
(* The specification: any sequence of calls on one store.                  *)
(***************************************************************************)
Add ==
    \E d \in Docs : add_document_metadata(d) /\ UNCHANGED <<schema, outside>>

Get ==
    \E id \in Ids : get_document_metadata(id) /\ UNCHANGED <<schema, outside>>

List ==
    \E p \in ListCalls :
        list_documents_metadata(p) /\ UNCHANGED <<schema, outside>>

Update ==
    \E id \in Ids, u \in Updates :
        update_document_metadata(id, u) /\ UNCHANGED <<schema, outside>>

Delete ==
    \E id \in Ids :
        delete_document_metadata(id) /\ UNCHANGED <<schema, outside>>

Next == initialize \/ close \/ Add \/ Get \/ List \/ Update \/ Delete

Spec == Init /\ [][Next]_vars

(***************************************************************************)
(* The store reopened: the same calls, starting from a store that was      *)
(* initialized, wrote its rows and was closed.                             *)
(***************************************************************************)
\* The tables a store leaves behind after add calls that returned.
ReopenTables ==
    {t \in SUBSET {document_row(d) : d \in Docs} :
        t # {} /\ \A r1, r2 \in t : r1.id = r2.id => r1 = r2}

InitReopen ==
    /\ _initialized = FALSE
    /\ _conn = None
    /\ open_conns = 0
    /\ db \in ReopenTables
    /\ schema = StoreColumns
    /\ view = db
    /\ pending = FALSE
    /\ faults = 0
    /\ last = Call("close", "", <<>>, <<>>, NoParams, "", Returned)
    /\ OutsideIdle

SpecReopen == InitReopen /\ [][Next]_vars

(***************************************************************************)
(* list_documents_metadata on its own: an initialized store over a table   *)
(* of up to three rows, queried with filters, sort keys, sort orders and   *)
(* pages.                                                                  *)
(***************************************************************************)
\* A third document, timezone-aware with an offset east of UTC: its wall
\* clock reads later than DocAlpha's, its instant is earlier.
DocGamma(id) ==
    Document(id, "Gamma", "Author One", None, "PDF",
             datetime(9, 0, East), "/gamma.md", {}, None)

\* The tables: rows written by add, and the legacy row LegacyBadDate.
ListRows ==
    {document_row(DocAlpha("a")), document_row(DocBeta("b")),
     document_row(DocGamma("c")), LegacyBadDate}

\* id is the PRIMARY KEY: no table holds two rows with one id.
ListTables ==
    {t \in SUBSET ListRows : \A r1, r2 \in t : r1.id = r2.id => r1 = r2}

ListFilters ==
    {<<>>,
     [k \in {"author"} |-> PyStr("Author One")],
     [k \in {"document_type"} |-> PyEnum("PDF")],
     [k \in {"author", "document_type"} |->
        IF k = "author" THEN PyStr("Author One") ELSE PyEnum("PDF")],
     [k \in {"document_type"} |-> PyStr("pdf")],
     [k \in {"author", "source", "title"} |->
        CASE k = "author" -> PyStr("Author One")
          [] k = "title" -> PyNone
          [] OTHER -> PyStr("test_upload")],
     [k \in {"id"} |-> PyStr("b")]}

ListSortBy ==
    {None, "id", "title", "author", "date_added", "document_type",
     "file_path", "bogus"}

ListSortOrder == {"desc", "DESC", "asc", "up"}

ListQueries ==
    {ListParams(f, pg[1], pg[2], sb, "asc") :
        f \in ListFilters, pg \in {<<0, 100>>, <<1, 1>>}, sb \in {None, "title"}}
    \cup {ListParams(<<>>, 0, 100, sb, so) :
        sb \in ListSortBy, so \in ListSortOrder}
    \cup {ListParams(f, o, l, sb, "asc") :
        f \in {<<>>, [k \in {"author"} |-> PyStr("Author One")]},
        o \in 0..2, l \in {0, 1, 2, 100}, sb \in {"title", "id"}}

InitList ==
    /\ _initialized = TRUE
    /\ _conn = Connection
    /\ open_conns = 1
    /\ db \in ListTables
    /\ schema = StoreColumns
    /\ view = db
    /\ pending = FALSE
    /\ faults = 0
    /\ last = NoCall
    /\ OutsideIdle

ListQuery ==
    \E p \in ListQueries :
        list_documents_metadata(p) /\ UNCHANGED <<schema, outside>>

NextList == ListQuery

SpecList == InitList /\ [][NextList]_vars

(***************************************************************************)
(* _row_to_document on its own: the conversion applied to one row, drawn   *)
(* from rows whose date_added has each form a row can hand over and whose  *)
(* other columns are valid or not.                                         *)
(***************************************************************************)
RowDates ==
    {SqlText(isoformat(datetime(5, 0, Naive))),
     SqlText(isoformat(datetime(5, 123, UTC))),
     SqlText(isoformat(datetime(9, 0, East))),
     SqlText(<<Tok("junk", 0)>>),
     SqlText(<<Tok("usec", 123)>>),
     SqlNum(0),
     SqlNum(5),
     SqlTimestamp(datetime(5, 0, Naive)),
     SqlTimestamp(datetime(5, 123, UTC)),
     SqlBlob(<<Tok("sec", 5)>>),
     SqlNull}

RowForms ==
    {Row("a", title, author, NULL, code, date_added, NULL) :
        title \in {"Alpha", NULL}, author \in {"Ann", NULL},
        code \in {"pdf", "md", "bogus"}, date_added \in RowDates}

InitRows ==
    /\ _initialized = FALSE
    /\ _conn = None
    /\ open_conns = 0
    /\ db = {}
    /\ schema = NoTable
    /\ view = db
    /\ pending = FALSE
    /\ faults = 0
    /\ last = NoCall
    /\ row_arg \in {<<r>> : r \in RowForms}
    /\ OverlapIdle
    /\ vectors = <<>>
    /\ added = <<>>
    /\ documents_content = <<>>
    /\ saved_paths = {}
    /\ last_saved = <<>>
    /\ chunks = <<>>
    /\ embeddings = <<>>

\* One call of _row_to_document on the row; what the try body raises and
\* the except does not catch would reach the caller.
ConvertRow ==
    /\ row_arg # <<>>
    /\ LET c == _row_to_document(row_arg[1])
       IN  last' = Call("_row_to_document", row_arg[1].id, <<>>, <<>>, NoParams, "",
                        IF c.out = "raise" THEN Raised("Exception")
                        ELSE Optional(c.doc))
    /\ UNCHANGED <<store, db, schema, outside>>

NextRows == ConvertRow

SpecRows == InitRows /\ [][NextRows]_vars

(***************************************************************************)
(* The document service over the in-memory vector database, and the        *)
(* init-db command of the Flask application.                               *)
(*                                                                         *)
(* A Python dict keeps its keys in insertion order: a dict of values       *)
(* keyed by their id is the sequence of its values, and assigning to a     *)
(* key that is present replaces the value where it stands.                 *)
(***************************************************************************)
dict_get(d, key) ==
    LET hits == SelectSeq(d, LAMBDA v : v.id = key)
    IN  IF hits = <<>> THEN <<>> ELSE <<hits[1]>>

dict_set(d, value) ==
    IF \E i \in 1..Len(d) : d[i].id = value.id
    THEN [i \in 1..Len(d) |-> IF d[i].id = value.id THEN value ELSE d[i]]
    ELSE Append(d, value)

dict_pop(d, key) == SelectSeq(d, LAMBDA v : v.id # key)

\* interfaces.vector_db.Vector.
Vector(id, embedding, metadata, text) ==
    [id |-> id, embedding |-> embedding, metadata |-> metadata, text |-> text]

\* MockLLM.get_embeddings: one vector of zeros for each text.
get_embeddings(texts) == [i \in 1..Len(texts) |-> "[0.0] * 1536"]

\* f"doc_{n}"
doc_id(n) == <<"doc_", n>>

\* MockVectorDB.add_vectors
RECURSIVE add_vectors(_, _)
add_vectors(d, vs) ==
    IF vs = <<>> THEN d ELSE add_vectors(dict_set(d, Head(vs)), Tail(vs))

\* MockVectorDB.search: list(self.vectors.values())[:top_k]
search(d, top_k) == SubSeq(d, 1, IF top_k < Len(d) THEN top_k ELSE Len(d))

\* add_document calls made in one behaviour.
MaxAdds == 3

AddInputs ==
    {[text |-> "First document", metadata |-> [title |-> "First"]],
     [text |-> "Second document", metadata |-> [title |-> "Second"]]}

\* top_k: the default of search_documents and two smaller pages.
TopKs == {1, 2, 5}

Str(s) == Result("str", <<s>>)
ListOf(s) == Result("list", s)

\* DocumentService.add_document.  added keeps, for every call, the id it
\* returned with the text and metadata it was given.
add_document(text, metadata) ==
    LET text_embeddings == get_embeddings(<<text>>)
        vector == Vector(doc_id(Len(text_embeddings)), text_embeddings[1],
                         metadata, text)
    IN  /\ Len(added) < MaxAdds
        /\ vectors' = add_vectors(vectors, <<vector>>)
        /\ added' = Append(added, [id |-> vector.id, text |-> text,
                                   metadata |-> metadata])
        /\ last' = Call("add_document", "", <<vector>>, <<>>, NoParams, "",
                        Str(vector.id))
        /\ UNCHANGED <<store, db, schema, overlap, row_arg, documents_content,
                       saved_paths, last_saved, chunks, embeddings>>

\* DocumentService.search_documents
search_documents(query, top_k) ==
    /\ last' = Call("search_documents", query, <<>>, <<>>, [top_k |-> top_k],
                    "", ListOf(search(vectors, top_k)))
    /\ UNCHANGED <<store, db, schema, outside>>

\* MockVectorDB.get_vector
get_vector(vector_id) ==
    /\ last' = Call("get_vector", vector_id, <<>>, <<>>, NoParams, "",
                    Optional(dict_get(vectors, vector_id)))
    /\ UNCHANGED <<store, db, schema, outside>>

\* The documents table as init_db creates it.
FlaskColumns ==
    {"id", "title", "author", "pub_date", "doc_type", "date_added",
     "file_path"}

\* A row of that table, written by another client of the file.
FlaskRow ==
    [id |-> "f", title |-> "Flask", author |-> NULL, pub_date |-> NULL,
     doc_type |-> "pdf", date_added |-> SqlText(<<Tok("sec", 5)>>),
     file_path |-> "f.pdf"]

\* api.init_db: connect, CREATE TABLE IF NOT EXISTS documents, commit, close.
init_db ==
    /\ schema' = create_table_if_not_exists(schema, FlaskColumns)
    /\ db' = db

\* The init-db command.
init_db_command ==
    /\ init_db
    /\ last' = Call("init-db", "", <<>>, <<>>, NoParams, "", Returned)
    /\ UNCHANGED <<store, outside>>

\* What the database file may hold when the command runs: no table, the
\* table of an earlier init-db, empty or with a row, or the table of a
\* metadata store that was pointed at the same file.
AppFiles ==
    {<<NoTable, {}>>, <<FlaskColumns, {}>>, <<FlaskColumns, {FlaskRow}>>,
     <<StoreColumns, {document_row(DocAlpha("a"))}>>}

InitApp ==
    /\ _initialized = FALSE
    /\ _conn = None
    /\ open_conns = 0
    /\ \E file \in AppFiles : schema = file[1] /\ db = file[2]
    /\ view = db
    /\ pending = FALSE
    /\ faults = 0
    /\ last = NoCall
    /\ OutsideIdle

NextApp ==
    \/ \E d \in AddInputs : add_document(d.text, d.metadata)
    \/ \E top_k \in TopKs : search_documents("document", top_k)
    \/ \E n \in 1..2 : get_vector(doc_id(n))
    \/ init_db_command

SpecApp == InitApp /\ [][NextApp]_vars

(***************************************************************************)
(* MockDocumentStore.  A file name and a path are strings, held as the     *)
(* sequence of their pieces ("doc", "_", "1", ".", "pdf"), so that the     *)
(* path built from a name and a counter can equal the path of another      *)
(* file name.  documents_content is a function from paths to contents.     *)
(* last_saved remembers, for every path a save has returned, the content   *)
(* of the last save that returned it, or nothing once the path has been    *)
(* deleted since.                                                          *)
(***************************************************************************)
\* Paths held by the store in one behaviour.
MaxPaths == 2

\* str(count)
str(count) == <<"1", "2", "3", "4", "5", "6", "7", "8", "9">>[count]

\* original_filename.rsplit(".", 1) if "." in original_filename
\* else (original_filename, "")
rsplit(filename) ==
    IF \E i \in 1..Len(filename) : filename[i] = "."
    THEN LET dot == CHOOSE i \in 1..Len(filename) :
                        /\ filename[i] = "."
                        /\ \A j \in (i + 1)..Len(filename) : filename[j] # "."
         IN  [name |-> SubSeq(filename, 1, dot - 1),
              ext |-> SubSeq(filename, dot + 1, Len(filename))]
    ELSE [name |-> filename, ext |-> <<>>]

\* f"mock_store/{name}_{count}{'.' + ext if ext else ''}"
counted_path(filename, count) ==
    LET parts == rsplit(filename)
    IN  <<"mock_store/">> \o parts.name \o <<"_", str(count)>>
            \o (IF parts.ext # <<>> THEN <<".">> \o parts.ext ELSE <<>>)

\* The while loop of save_document, entered with file_path and count.
RECURSIVE unique_path(_, _, _)
unique_path(file_path, filename, count) ==
    IF file_path \in saved_paths
    THEN unique_path(counted_path(filename, count + 1), filename, count + 1)
    ELSE file_path

save_path(filename) == unique_path(<<"mock_store/">> \o filename, filename, 0)

Bytes(content) == Result("bytes", <<content>>)

save_document(file_content, original_filename) ==
    LET file_path == save_path(original_filename)
    IN  /\ Cardinality(saved_paths) < MaxPaths
        /\ documents_content' =
              [p \in DOMAIN documents_content \cup {file_path} |->
                  IF p = file_path THEN file_content ELSE documents_content[p]]
        /\ saved_paths' = saved_paths \cup {file_path}
        /\ last_saved' =
              [p \in DOMAIN last_saved \cup {file_path} |->
                  IF p = file_path THEN <<file_content>> ELSE last_saved[p]]
        /\ last' = Call("save_document", original_filename, <<file_content>>,
                        <<>>, NoParams, "", Str(file_path))
        /\ UNCHANGED <<store, db, schema, overlap, row_arg, vectors, added, chunks,
                       embeddings>>

load_document(file_path) ==
    /\ last' = Call("load_document", file_path, <<>>, <<>>, NoParams, "",
                    IF file_path \notin DOMAIN documents_content
                    THEN Raised("FileNotFoundError")
                    ELSE Bytes(documents_content[file_path]))
    /\ UNCHANGED <<store, db, schema, outside>>

\* A faulty delete that forgets the content.
delete_document_keeps_content(file_path) ==
    /\ saved_paths' = saved_paths \ {file_path}
    /\ UNCHANGED documents_content
    /\ last_saved' =
          [p \in DOMAIN last_saved |->
              IF p = file_path THEN <<>> ELSE last_saved[p]]
    /\ last' = Call("delete_document", file_path, <<>>, <<>>, NoParams, "",
                    Returned)
    /\ UNCHANGED <<store, db, schema, overlap, row_arg, vectors, added, chunks,
                   embeddings>>

delete_document(file_path) ==
    /\ IF file_path \in DOMAIN documents_content
       THEN /\ documents_content' =
                  [p \in DOMAIN documents_content \ {file_path} |->
                      documents_content[p]]
            /\ saved_paths' = saved_paths \ {file_path}
       ELSE UNCHANGED <<documents_content, saved_paths>>
    /\ last_saved' =
          [p \in DOMAIN last_saved |->
              IF p = file_path THEN <<>> ELSE last_saved[p]]
    /\ last' = Call("delete_document", file_path, <<>>, <<>>, NoParams, "",
                    Returned)
    /\ UNCHANGED <<store, db, schema, overlap, row_arg, vectors, added, chunks,
                   embeddings>>

\* File names: the test's, one that reads like a counted path of it, and
\* one without an extension.
Filenames ==
    {<<"test_doc", ".", "pdf">>, <<"test_doc", "_", "1", ".", "pdf">>,
     <<"notes">>}

Contents == {"This is a test PDF content.", "Other content."}

\* Paths asked of load and delete: the paths held, the first path of each
\* file name (held, deleted or never saved) and one that is never saved.
AskedPaths ==
    saved_paths \cup {<<"mock_store/">> \o f : f \in Filenames}
        \cup {<<"mock_store/", "non_existent", ".", "pdf">>}

InitDocumentStore ==
    /\ _initialized = FALSE
    /\ _conn = None
    /\ open_conns = 0
    /\ db = {}
    /\ schema = NoTable
    /\ view = db
    /\ pending = FALSE
    /\ faults = 0
    /\ last = NoCall
    /\ OutsideIdle

NextDocumentStore ==
    \/ \E c \in Contents, f \in Filenames : save_document(c, f)
    \/ \E p \in AskedPaths : load_document(p)
    \/ \E p \in AskedPaths : delete_document(p)

SpecDocumentStore == InitDocumentStore /\ [][NextDocumentStore]_vars

(***************************************************************************)
(* MockVectorStore.  chunks is a dict of TextChunk keyed by chunk id (the  *)
(* sequence of its values, in insertion order); embeddings is a function   *)
(* from chunk ids to embeddings.  Arguments that may be None, empty or     *)
(* not are Python values [py, v].                                          *)
(***************************************************************************)
PyList(s) == [py |-> "list", v |-> s]
PyDict(f) == [py |-> "dict", v |-> f]
\* None, where the argument is otherwise a list or a dict.
PyNoneOf == [py |-> "NoneType", v |-> <<>>]

\* bool(x), as "if x" and "not x" take it.
truthy(pv) ==
    CASE pv.py = "NoneType" -> FALSE
      [] pv.py = "str" -> pv.v # ""
      [] pv.py = "list" -> pv.v # <<>>
      [] pv.py = "dict" -> DOMAIN pv.v # {}

\* models.TextChunk and models.SearchResult.
TextChunk(id, document_id, text, metadata) ==
    [id |-> id, document_id |-> document_id, text |-> text,
     metadata |-> metadata]

SearchResult(chunk) ==
    [chunk_id |-> chunk.id, document_id |-> chunk.document_id,
     text |-> chunk.text, score |-> "0.8", chunk_metadata |-> chunk.metadata]

\* dict.get(key)
metadata_get(metadata, key) ==
    IF key \in DOMAIN metadata THEN metadata[key] ELSE None

Elements(s) == {s[i] : i \in 1..Len(s)}

\* Lines 138-180: the ValueError, or the list of results.
similar_chunks(d, query_text, query_embedding, top_k, document_ids, metadata_filter) ==
    LET by_document ==
            IF truthy(document_ids)
            THEN SelectSeq(d, LAMBDA c : c.document_id \in Elements(document_ids.v))
            ELSE d
        candidate_chunks ==
            IF truthy(metadata_filter)
            THEN SelectSeq(by_document,
                           LAMBDA c : \A key \in DOMAIN metadata_filter.v :
                               metadata_get(c.metadata, key) = metadata_filter.v[key])
            ELSE by_document
        taken == IF top_k < Len(candidate_chunks) THEN top_k
                 ELSE Len(candidate_chunks)
    IN  CASE ~truthy(query_text) /\ ~truthy(query_embedding) ->
                Raised("ValueError")
          [] truthy(query_text) /\ truthy(query_embedding) ->
                Raised("ValueError")
          [] OTHER ->
                ListOf([i \in 1..taken |-> SearchResult(candidate_chunks[i])])

SearchParams(query_text, query_embedding, top_k, document_ids, metadata_filter) ==
    [query_text |-> query_text, query_embedding |-> query_embedding,
     top_k |-> top_k, document_ids |-> document_ids,
     metadata_filter |-> metadata_filter]

search_similar_chunks(p) ==
    /\ last' = Call("search_similar_chunks", "", <<>>, <<>>, p, "",
                    similar_chunks(chunks, p.query_text, p.query_embedding,
                                   p.top_k, p.document_ids, p.metadata_filter))
    /\ UNCHANGED <<store, db, schema, outside>>

\* Lines 121-129.
RECURSIVE added_chunks(_, _)
added_chunks(d, chunks_to_add) ==
    IF chunks_to_add = <<>> THEN d
    ELSE added_chunks(dict_set(d, Head(chunks_to_add)), Tail(chunks_to_add))

add_text_chunks(chunks_to_add) ==
    LET added_ids == [i \in 1..Len(chunks_to_add) |-> chunks_to_add[i].id]
    IN  /\ chunks' = added_chunks(chunks, chunks_to_add)
        /\ embeddings' =
              [id \in DOMAIN embeddings \cup Elements(added_ids) |->
                  IF id \in Elements(added_ids) THEN "[0.1] * 128"
                  ELSE embeddings[id]]
        /\ last' = Call("add_text_chunks", "", chunks_to_add, <<>>, NoParams,
                        "", ListOf(added_ids))
        /\ UNCHANGED <<store, db, schema, overlap, row_arg, vectors, added,
                       documents_content, saved_paths, last_saved>>

\* A faulty delete that leaves the embeddings of the chunks it removes.
delete_document_chunks_keeps_embeddings(document_id) ==
    LET kept == SelectSeq(chunks, LAMBDA c : c.document_id # document_id)
        chunks_to_delete ==
            [i \in 1..(Len(chunks) - Len(kept)) |->
                SelectSeq(chunks, LAMBDA c : c.document_id = document_id)[i].id]
    IN  /\ chunks' = kept
        /\ UNCHANGED embeddings
        /\ last' = Call("delete_document_chunks", document_id, <<>>, <<>>,
                        [chunks_to_delete |-> chunks_to_delete], "", Bool(TRUE))
        /\ UNCHANGED <<store, db, schema, overlap, row_arg, vectors, added,
                       documents_content, saved_paths, last_saved>>

\* Lines 182-198.  Every id of chunks_to_delete is a key of chunks, so
\* deleted_count is the length of the list.
delete_document_chunks(document_id) ==
    LET doomed == SelectSeq(chunks, LAMBDA c : c.document_id = document_id)
        chunks_to_delete == [i \in 1..Len(doomed) |-> doomed[i].id]
        deleted_count == Len(chunks_to_delete)
    IN  /\ IF chunks_to_delete = <<>>
           THEN /\ UNCHANGED <<chunks, embeddings>>
                /\ last' = Call("delete_document_chunks", document_id, <<>>,
                                <<>>, [chunks_to_delete |-> chunks_to_delete],
                                "", Bool(TRUE))
           ELSE /\ chunks' =
                      SelectSeq(chunks,
                                LAMBDA c : c.id \notin Elements(chunks_to_delete))
                /\ embeddings' =
                      [id \in DOMAIN embeddings \ Elements(chunks_to_delete) |->
                          embeddings[id]]
                /\ last' = Call("delete_document_chunks", document_id, <<>>,
                                <<>>, [chunks_to_delete |-> chunks_to_delete],
                                "",
                                Bool(deleted_count > 0 \/ chunks_to_delete = <<>>))
        /\ UNCHANGED <<store, db, schema, overlap, row_arg, vectors, added,
                       documents_content, saved_paths, last_saved>>

get_text_chunk(chunk_id) ==
    /\ last' = Call("get_text_chunk", chunk_id, <<>>, <<>>, NoParams, "",
                    Optional(dict_get(chunks, chunk_id)))
    /\ UNCHANGED <<store, db, schema, outside>>

\* Lines 203-217.  TextChunk(**updated_data) raises when text is not a
\* str; the except returns None and nothing has been assigned.
update_text_chunk(chunk_id, updates) ==
    LET found == dict_get(chunks, chunk_id)
        valid == "text" \in DOMAIN updates => updates.text.py = "str"
        chunk == IF "text" \in DOMAIN updates
                 THEN [found[1] EXCEPT !.text = updates.text.v]
                 ELSE found[1]
    IN  /\ IF found # <<>> /\ valid
           THEN /\ chunks' = dict_set(chunks, chunk)
                /\ embeddings' =
                      IF "text" \in DOMAIN updates
                      THEN [embeddings EXCEPT ![chunk_id] = "[0.2] * 128"]
                      ELSE embeddings
                /\ last' = Call("update_text_chunk", chunk_id, <<>>, updates,
                                NoParams, "", Optional(<<chunk>>))
           ELSE /\ UNCHANGED <<chunks, embeddings>>
                /\ last' = Call("update_text_chunk", chunk_id, <<>>, updates,
                                NoParams, "", Optional(NoDocument))
        /\ UNCHANGED <<store, db, schema, overlap, row_arg, vectors, added,
                       documents_content, saved_paths, last_saved>>

\* The chunks of the test, two of doc_1 and one of doc_2; those of doc_1
\* carry a page in their metadata.
Chunk11 ==
    TextChunk("chunk_1_1", "doc_1", "First chunk from doc1 about apples.",
              [page |-> "1"])
Chunk12 ==
    TextChunk("chunk_1_2", "doc_1", "Second chunk from doc1 about oranges.",
              [page |-> "2"])
Chunk21 ==
    TextChunk("chunk_2_1", "doc_2", "First chunk from doc2 also about apples.",
              <<>>)

ChunkLists == {<<Chunk11, Chunk12, Chunk21>>, <<Chunk11>>, <<Chunk12>>, <<Chunk21>>}

ChunkIds == {"chunk_1_1", "chunk_2_1", "chunk_9_9"}

DocumentIds == {"doc_1", "doc_2", "doc_non_existent"}

ChunkUpdates ==
    {[text |-> PyStr("Updated text about apples and pears")],
     [text |-> PyNone]}

\* Queries: the two query arguments absent (None), empty or given, with
\* the defaults for the rest; and a text query with each page size,
\* each restriction to documents and each metadata filter.
SearchQueries ==
    {SearchParams(query_text, query_embedding, 5, PyNoneOf, PyNoneOf) :
        query_text \in {PyNone, PyStr(""), PyStr("apples")},
        query_embedding \in {PyNoneOf, PyList(<<>>), PyList(<<"0.1">>)}}
    \cup
    {SearchParams(PyStr("apples"), PyNoneOf, top_k, document_ids, metadata_filter) :
        top_k \in {1, 2, 5},
        document_ids \in {PyNoneOf, PyList(<<>>), PyList(<<"doc_1">>),
                          PyList(<<"doc_2", "doc_non_existent">>)},
        metadata_filter \in {PyNoneOf, PyDict(<<>>), PyDict([page |-> "1"])}}

InitVectorStore ==
    /\ _initialized = FALSE
    /\ _conn = None
    /\ open_conns = 0
    /\ db = {}
    /\ schema = NoTable
    /\ view = db
    /\ pending = FALSE
    /\ faults = 0
    /\ last = NoCall
    /\ OutsideIdle

NextVectorStore ==
    \/ \E l \in ChunkLists : add_text_chunks(l)
    \/ \E p \in SearchQueries : search_similar_chunks(p)
    \/ \E d \in DocumentIds : delete_document_chunks(d)
    \/ \E id \in ChunkIds : get_text_chunk(id)
    \/ \E id \in ChunkIds, u \in ChunkUpdates : update_text_chunk(id, u)

SpecVectorStore == InitVectorStore /\ [][NextVectorStore]_vars

(***************************************************************************)
(* Properties.                                                             *)
(***************************************************************************)
CrudOps == {"add", "get", "list", "update", "delete"}
WriteOps == {"add", "update", "delete"}
Exceptions == {"RuntimeError", "IntegrityError", "OperationalError", "Exception"}

PersistedFields ==
    {"id", "title", "author", "publication_date", "document_type",
     "date_added", "file_path"}

HasRow(rows, id) == \E r \in rows : r.id = id
RowOf(rows, id) == CHOOSE r \in rows : r.id = id
UniqueIds(rows) == \A r1, r2 \in rows : r1.id = r2.id => r1 = r2

\* C1: a CRUD call on a store whose initialized flag is false (never
\* initialized, closed, or left half-initialized) raises the uninitialized
\* RuntimeError, leaves the connection as it was (none opened, none
\* replaced) and leaves the rows, committed and seen, unchanged.
C1_UninitializedCallFails ==
    [][(last'.op \in CrudOps /\ ~_initialized) =>
          /\ last'.res.kind = "RuntimeError"
          /\ _conn' = _conn /\ open_conns' = open_conns
          /\ _initialized' = _initialized
          /\ db' = db /\ view' = view /\ pending' = pending]_vars

\* An update refused on a store that was closed after documents were added.
C1_Witness ==
    /\ last.op = "update" /\ last.res.kind = "RuntimeError"
    /\ ~_initialized /\ _conn = None /\ open_conns = 0
    /\ HasRow(db, "a")

\* C2: add(d) on an initialized store where d.id has no row returns, and
\* get(d.id) then returns a document equal to d in the seven persisted
\* fields.
C2_AddGetRoundTrip ==
    [][(last'.op = "add" /\ _ensure_initialized /\ ~HasRow(view, last'.id)) =>
          /\ last'.res.kind = "returned"
          /\ _ensure_initialized'
          /\ LET g == get_document(view', last'.id)
             IN  /\ g.kind = "Document"
                 /\ \A f \in PersistedFields : g.docs[1][f] = last'.doc[1][f]]_vars

\* The document with microseconds and a UTC offset has just been added.
C2_Witness ==
    /\ last.op = "add" /\ last.res.kind = "returned"
    /\ last.doc[1] = DocAlpha("a")
    /\ get_document(view, "a").kind = "Document"

\* C3: add of a document whose id has a row raises IntegrityError and
\* changes no row, seen or committed; and no table, seen or committed, ever
\* holds two rows with one id.
C3_DuplicateAddConflicts ==
    [][/\ (last'.op = "add" /\ _ensure_initialized /\ HasRow(view, last'.id)) =>
            /\ last'.res.kind = "IntegrityError"
            /\ view' = view /\ db' = db
       /\ UniqueIds(view') /\ UniqueIds(db')]_vars

\* A conflicting add of a document that differs from the row it met.
C3_Witness ==
    /\ last.op = "add" /\ last.res.kind = "IntegrityError"
    /\ HasRow(view, last.id)
    /\ RowOf(view, last.id) # document_row(last.doc[1])

\* C4, as claimed: when add, update or delete has returned without raising,
\* no uncommitted write is pending on the connection, and what the
\* connection reads is what is committed.
C4_WritesCommittedOnReturn ==
    (last.op \in WriteOps /\ last.res.kind \notin Exceptions) =>
        ~pending /\ view = db

\* The keys the claims call writable, and a supplied value as the field of
\* a Document (a type code names its member).
WritableKeys ==
    {"title", "author", "publication_date", "document_type", "file_path"}

Supplied(k, pv) ==
    CASE pv.py = "NoneType" -> None
      [] pv.py = "DocumentType" -> pv.v
      [] k = "document_type" -> DocumentType(pv.v)
      [] OTHER -> pv.v

\* In a step that is update(id, updates): the call returns a document that
\* has the supplied value under every writable key supplied, the row's
\* other columns are what they were (and so are the document's other
\* fields, when the row converted before), and get(id) now returns the
\* same document.
UpdateReturnsWritten ==
    LET id == last'.id
        U == last'.updates
        W == DOMAIN U \cap WritableKeys
    IN  /\ last'.res.kind = "Document"
        /\ \A k \in W : last'.res.docs[1][k] = Supplied(k, U[k])
        /\ HasRow(view', id)
        /\ \A f \in PersistedFields \ W : RowOf(view', id)[f] = RowOf(view, id)[f]
        /\ get_document(view, id).kind = "Document" =>
              \A f \in PersistedFields \ W :
                  last'.res.docs[1][f] = get_document(view, id).docs[1][f]
        /\ get_document(view', id) = last'.res

UpdateOfExistingRow ==
    /\ last'.op = "update" /\ _ensure_initialized
    /\ HasRow(view, last'.id)
    /\ DOMAIN last'.updates \cap WritableKeys # {}

\* C5, as claimed: update of an existing id with at least one writable key
\* returns the written document.
C5_UpdateAlwaysReturnsWritten ==
    [][UpdateOfExistingRow => UpdateReturnsWritten]_vars

\* C5, amended: update of an existing id with at least one writable key
\* returns no document or the written document; it returns the document
\* whenever the storage does not fault, no None is supplied for title or
\* document_type, and the row converts afterwards.
C5_UpdateReturnsWrittenOrNone ==
    [][UpdateOfExistingRow =>
          /\ last'.res.kind = "None" \/ UpdateReturnsWritten
          /\ ( /\ last'.fault = ""
               /\ \A k \in {"title", "document_type"} \cap DOMAIN last'.updates :
                      last'.updates[k].py # "NoneType"
               /\ get_document(view', last'.id).kind = "Document" )
             => last'.res.kind = "Document"]_vars

\* An update of all five writable fields has returned the document.
C5_Witness ==
    /\ last.op = "update" /\ last.updates = UpdAll
    /\ last.res.kind = "Document"
    /\ last.res.docs[1].title = "Gamma" /\ last.res.docs[1].document_type = "MD"
    /\ last.res.docs[1].date_added = DocAlpha("a").date_added

\* C6: an update step leaves every row with an id and a date_added that a
\* row had before it, raises nothing, and does to the table and returns
\* what the same call without the keys that are not writable does.
C6_UpdateIgnoresOtherKeys ==
    [][(last'.op = "update" /\ _ensure_initialized) =>
          LET U == last'.updates
              R == [k \in DOMAIN U \cap WritableKeys |-> U[k]]
              e == update_effect(last'.id, R, last'.fault)
          IN  /\ \A r2 \in view' : \E r \in view \cup db :
                    r.id = r2.id /\ r.date_added = r2.date_added
              /\ last'.res.kind \notin Exceptions
              /\ update_fault(last'.id, R, last'.fault)
              /\ view' = e.rows /\ pending' = e.dirty
              /\ db' = (IF e.commit THEN e.rows ELSE db)
              /\ last'.res = e.res]_vars

\* An update with id, date_added, metadata, source and author has set the
\* author and returned the document under its old id.
C6_Witness ==
    /\ last.op = "update" /\ last.updates = UpdMixed /\ last.id = "a"
    /\ last.res.kind = "Document"
    /\ last.res.docs[1].author = None /\ last.res.docs[1].id = "a"
    /\ ~HasRow(view, "b")

\* C7: an update with no writable key changes nothing, committed or
\* pending, and returns what get(id) returns in the same state.
C7_UpdateWithoutWritableKey ==
    [][(/\ last'.op = "update" /\ _ensure_initialized
        /\ DOMAIN last'.updates \cap WritableKeys = {}) =>
          /\ view' = view /\ db' = db /\ pending' = pending
          /\ last'.res = get_document(view, last'.id)
          /\ get_document(view', last'.id) = last'.res]_vars

\* update(id, {"invalid_field": .., "id": ..}) has returned the document.
C7_Witness ==
    /\ last.op = "update" /\ last.updates = UpdNoValid
    /\ last.res.kind = "Document" /\ last.res.docs[1].id = last.id
    /\ last.res.docs = get_document(view, last.id).docs

\* C8, as claimed: for an id without a row, get returns None, delete returns
\* False and update returns None, whatever the updates; none raises, and
\* neither the rows the store reads nor the committed rows change.
C8_NotFound ==
    [][(/\ last'.op \in {"get", "update", "delete"} /\ _ensure_initialized
        /\ ~HasRow(view, last'.id)) =>
          /\ last'.op = "get" => last'.res.kind = "None"
          /\ last'.op = "update" => last'.res.kind = "None"
          /\ last'.op = "delete" => last'.res.kind = "False"
          /\ view' = view
          /\ db' = db]_vars

\* C9, as claimed: delete returns True exactly when the id had a row at the
\* call and has none after it; after True, get returns None, a second
\* delete returns False and add of a document with that id returns.
C9_DeleteReportsRemoval ==
    [][(last'.op = "delete" /\ _ensure_initialized) =>
          /\ last'.res.kind = "True"
                <=> (HasRow(view, last'.id) /\ ~HasRow(view', last'.id))
          /\ last'.res.kind = "True" =>
                /\ get_document(view', last'.id).kind = "None"
                /\ sql_delete(view', last'.id).rowcount = 0
                /\ \A d \in Docs : d.id = last'.id =>
                      sql_insert(view', document_row(d)).err = ""]_vars

\* A row is unconvertible when its type code names no member or its
\* date_added is text that is not ISO-8601.
Unconvertible(row) ==
    \/ row.document_type \notin {"pdf", "docx", "html", "txt", "md"}
    \/ row.date_added.ty = "text" /\ ~IsIsoText(row.date_added.toks)

\* C10: get of an id whose row is unconvertible returns None, as for an id
\* without a row, and raises nothing.
C10_GetUnconvertibleIsNone ==
    \A id \in Ids :
        (_ensure_initialized /\ HasRow(view, id) /\ Unconvertible(RowOf(view, id))) =>
            /\ get_document(view, id) = Optional(NoDocument)
            /\ (last.op = "get" /\ last.id = id /\ last.res.kind # "RuntimeError")
                  => last.res = Optional(NoDocument)

\* get has returned None for a row with an unknown type code and an
\* unparsable date_added.
C10_Witness ==
    /\ last.op = "get" /\ last.res.kind = "None"
    /\ HasRow(view, last.id)
    /\ RowOf(view, last.id).document_type = "bogus"
    /\ ~IsIsoText(RowOf(view, last.id).date_added.toks)

(***************************************************************************)
(* Properties of list.                                                     *)
(***************************************************************************)
\* The filter keys the contract names.
HonoredKeys ==
    {"id", "title", "author", "publication_date", "file_path", "document_type"}

\* The entities of the rows that convert.
Entities(rows) ==
    {_row_to_document(r).doc[1] : r \in {x \in rows : _row_to_document(x).doc # NoDocument}}

\* Python's ==, between a field of an entity and a value of a filters dict.
\* A DocumentType member is a str and equals its code.
FieldEquals(d, k, pv) ==
    IF k = "document_type"
    THEN IF pv.py = "DocumentType" THEN d.document_type = pv.v
         ELSE DocumentTypeValue[d.document_type] = pv.v
    ELSE d[k] = pv.v

\* d equals the given value on every honored key given with a value.
MatchesAll(d, filters) ==
    \A k \in DOMAIN filters \cap HonoredKeys :
        filters[k].py # "NoneType" => FieldEquals(d, k, filters[k])

ListedSet(res) == {res.docs[i] : i \in 1..Len(res.docs)}

\* C11, as claimed: every entity list returns equals the given value on
\* every honored filter key, and a call whose page takes in the whole table
\* returns every convertible stored document that does.
C11_FilterAnd ==
    [][(last'.op = "list" /\ _ensure_initialized) =>
          LET p == last'.params
              matching == {d \in Entities(view) : MatchesAll(d, p.filters)}
          IN  /\ last'.res.kind = "list"
              /\ ListedSet(last'.res) \subseteq matching
              /\ (p.offset = 0 /\ p.limit >= Cardinality(view)) =>
                    ListedSet(last'.res) = matching]_vars

\* C12, as claimed: list with document_type given as a type's string code
\* returns only documents of that type.
C12_TypeCodeFilterHonored ==
    [][(/\ last'.op = "list" /\ _ensure_initialized
        /\ "document_type" \in DOMAIN last'.params.filters
        /\ last'.params.filters["document_type"].py = "str") =>
          \A d \in ListedSet(last'.res) :
              DocumentTypeValue[d.document_type]
                  = last'.params.filters["document_type"].v]_vars

\* filters without the entries whose key is not honored or whose value is
\* None.
Cleaned(filters) ==
    [k \in {x \in DOMAIN filters \cap HonoredKeys : filters[x].py # "NoneType"} |->
        filters[k]]

\* C13: a list call whose filters hold an entry with a key that is not
\* honored, or with the value None, raises nothing and returns what the
\* call without those entries returns.
C13_DroppedFilterEntries ==
    [][(/\ last'.op = "list" /\ _ensure_initialized
        /\ DOMAIN Cleaned(last'.params.filters) # DOMAIN last'.params.filters) =>
          LET p == last'.params
              q == [p EXCEPT !.filters = Cleaned(p.filters)]
          IN  /\ last'.res.kind = "list"
              /\ last'.res.docs \in list_documents(view, q)
              /\ list_documents(view, p) = list_documents(view, q)]_vars

\* A list filtered by author, an unknown key and a None title has returned
\* the one document of that author and left the other out.
C13_Witness ==
    /\ last.op = "list" /\ last.res.kind = "list"
    /\ DOMAIN last.params.filters = {"author", "source", "title"}
    /\ Cardinality(Entities(view)) >= 2
    /\ Len(last.res.docs) = 1
    /\ last.res.docs[1].id = "a"
    /\ last.params.limit = 100

\* Python's < between the values two entities hold in a field.  Strings
\* compare by code point, DocumentType members as their codes, datetimes by
\* wall clock when both are naive and by instant when both are aware; None
\* and a str, or a naive and an aware datetime, are not ordered.
FieldLess(d1, d2, f) ==
    CASE f = "date_added" ->
            LET x == d1.date_added
                y == d2.date_added
                xs == x.sec - utcoffset(x.tz)
                ys == y.sec - utcoffset(y.tz)
            IN  /\ (x.tz = Naive) = (y.tz = Naive)
                /\ xs < ys \/ (xs = ys /\ x.usec < y.usec)
      [] f = "document_type" ->
            TextRank(DocumentTypeValue[d1.document_type])
                < TextRank(DocumentTypeValue[d2.document_type])
      [] OTHER ->
            /\ d1[f] # None /\ d2[f] # None
            /\ TextRank(d1[f]) < TextRank(d2[f])

\* docs is in the order of field f: no later entity is less (ascending) or
\* greater (descending) than an earlier one.
OrderedBy(docs, f, desc) ==
    \A i, j \in 1..Len(docs) : i < j =>
        IF desc THEN ~FieldLess(docs[i], docs[j], f)
        ELSE ~FieldLess(docs[j], docs[i], f)

\* C14, as claimed: with sort_by a sortable field, the entities list
\* returns are in the order of that field, descending when sort_order is
\* "desc" in any letter case and ascending for any other sort_order.
C14_SortedByField ==
    [][(/\ last'.op = "list" /\ _ensure_initialized
        /\ last'.params.sort_by \in SortColumns) =>
          /\ last'.res.kind = "list"
          /\ OrderedBy(last'.res.docs, last'.params.sort_by,
                       last'.params.sort_order \in {"desc", "DESC", "Desc", "dEsc"})]_vars

\* C15: a list call whose sort_by is not a sortable field raises nothing,
\* appends no ORDER BY to its query, and returns what the call with
\* sort_by None returns.
C15_UnsortableDisablesSorting ==
    [][(/\ last'.op = "list" /\ _ensure_initialized
        /\ last'.params.sort_by \notin
              {"id", "title", "author", "publication_date", "document_type",
               "date_added"}) =>
          LET p == last'.params
              q == [p EXCEPT !.sort_by = None]
          IN  /\ last'.res.kind = "list"
              /\ order_by(p.sort_by, p.sort_order) = <<>>
              /\ last'.res.docs \in list_documents(view, q)
              /\ list_documents(view, p) = list_documents(view, q)]_vars

\* A list with sort_by "file_path" has returned two entities in the
\* descending order of file_path although asked for the ascending one.
C15_Witness ==
    /\ last.op = "list" /\ last.res.kind = "list"
    /\ last.params.sort_by = "file_path" /\ last.params.sort_order = "asc"
    /\ Len(last.res.docs) = 2
    /\ last.res.docs[1].file_path = "/gamma.md"
    /\ last.res.docs[2].file_path = "/alpha.txt"

\* The rows a call's filters select, and whether their sort keys differ.
Selected(rows, p) == {r \in rows : row_matches(r, where_conditions(p.filters))}

DistinctKeys(rows, col) ==
    \A r1, r2 \in rows : r1 # r2 => sort_key(r1, col) # sort_key(r2, col)

\* A list call sorted on a key whose values are distinct, with offset and
\* limit not negative.
PagedCall(p, rows) ==
    /\ p.sort_by \in SortColumns
    /\ DistinctKeys(Selected(rows, p), p.sort_by)
    /\ p.offset >= 0 /\ p.limit >= 0

\* Positions offset+1 .. offset+limit of a sequence, fewer when it ends.
Positions(s, offset, limit) ==
    SubSeq(s, offset + 1, IF offset + limit > Len(s) THEN Len(s) ELSE offset + limit)

\* C16, as claimed: such a call returns the elements at positions offset ..
\* offset+limit-1 of the filtered, sorted result, fewer only when that
\* sequence ends, and never more than limit entities.
C16_PageOfSortedResult ==
    [][(last'.op = "list" /\ _ensure_initialized /\ PagedCall(last'.params, view)) =>
          LET p == last'.params
              whole == [p EXCEPT !.offset = 0, !.limit = Cardinality(view)]
          IN  /\ Len(last'.res.docs) <= p.limit
              /\ \E full \in list_documents(view, whole) :
                    last'.res.docs = Positions(full, p.offset, p.limit)]_vars

\* C16, amended: such a call returns the entities of the rows at positions
\* offset .. offset+limit-1 of the filtered, sorted rows, in that order and
\* without the rows that do not convert; never more than limit entities;
\* and the elements at those positions of the filtered, sorted result when
\* every selected row converts.  (The keys are distinct: the filtered,
\* sorted sequence s is the only one.)
C16_PageOfSortedRows ==
    [][(last'.op = "list" /\ _ensure_initialized /\ PagedCall(last'.params, view)) =>
          \E p \in {last'.params} :
          \E s \in ordered_rows(Selected(view, p), p.sort_by, p.sort_order) :
          \E docs \in {last'.res.docs} :
              /\ Len(docs) <= p.limit
              /\ docs = converted(Positions(s, p.offset, p.limit))
              /\ (\A i \in 1..Len(s) : _row_to_document(s[i]).doc # NoDocument) =>
                    docs = Positions(converted(s), p.offset, p.limit)]_vars

\* The second page of one, by ascending title, of a table of three
\* documents has returned the second title.
C16_Witness ==
    /\ last.op = "list" /\ last.res.kind = "list"
    /\ last.params.sort_by = "title" /\ last.params.sort_order = "asc"
    /\ last.params.offset = 1 /\ last.params.limit = 1
    /\ last.params.filters = <<>>
    /\ Cardinality(Entities(view)) = 3
    /\ Len(last.res.docs) = 1 /\ last.res.docs[1].title = "Beta"

Converts(row) == _row_to_document(row).doc # NoDocument

\* The rows of a page that convert, in the order of the page, as entities.
EntitiesInOrder(page) ==
    LET kept == SelectSeq(page, Converts)
    IN  [i \in 1..Len(kept) |-> _row_to_document(kept[i]).doc[1]]

Dropped(page) == Cardinality({i \in 1..Len(page) : ~Converts(page[i])})

\* C17: a list call, for a filtered and ordered sequence s of the rows and
\* its page, returns a list, not an error; the list is the convertible rows
\* of the page in the page's order; and its length is that of the page less
\* the rows dropped, so limit less the rows dropped when the page is full.
C17_UnconvertibleRowsDropped ==
    [][(/\ last'.op = "list" /\ _ensure_initialized
        /\ last'.params.offset >= 0 /\ last'.params.limit >= 0) =>
          \E p \in {last'.params} :
          \E s \in ordered_rows(Selected(view, p), p.sort_by, p.sort_order) :
          \E page \in {Positions(s, p.offset, p.limit)} :
          \E docs \in {last'.res.docs} :
              /\ last'.res.kind = "list"
              /\ docs = EntitiesInOrder(page)
              /\ Len(docs) = Len(page) - Dropped(page)
              /\ Len(page) = p.limit => Len(docs) = p.limit - Dropped(page)]_vars

\* A page of two by ascending id of the table a, b, c, where b does not
\* convert, has returned a alone: c has not taken b's place.
C17_Witness ==
    /\ last.op = "list" /\ last.res.kind = "list"
    /\ last.params.sort_by = "id" /\ last.params.sort_order = "asc"
    /\ last.params.offset = 0 /\ last.params.limit = 2
    /\ last.params.filters = <<>>
    /\ Cardinality(view) = 3 /\ LegacyBadDate \in view
    /\ Len(last.res.docs) = 1 /\ last.res.docs[1].id = "a"

(***************************************************************************)
(* Properties of the entities returned, and of initialize.                 *)
(***************************************************************************)
ReadOps == {"get", "list", "update"}

\* C18: every entity returned by get, list or update has metadata {} and
\* source None.
C18_MetadataAndSourceLost ==
    last.op \in ReadOps =>
        \A d \in ListedSet(last.res) : d.metadata = {} /\ d.source = None

\* get has returned document a, which was added with metadata and a source.
C18_Witness ==
    /\ last.op = "get" /\ last.res.kind = "Document"
    /\ last.res.docs[1].id = "a"
    /\ DocAlpha("a").metadata # {} /\ DocAlpha("a").source # None
    /\ document_row(DocAlpha("a")) \in view

\* The entity d holds the values of the row r: the text columns as they
\* are (NULL as None), the type code as its member, the date decoded.
EntityOfRow(d, r) ==
    /\ r.id # NULL /\ d.id = r.id
    /\ r.title # NULL /\ d.title = r.title
    /\ d.author = column_value(r.author)
    /\ d.publication_date = column_value(r.publication_date)
    /\ d.file_path = column_value(r.file_path)
    /\ d.document_type \in DocumentTypeMembers
    /\ DocumentTypeValue[d.document_type] = r.document_type
    /\ \/ /\ r.date_added.ty = "text"
          /\ IsIsoText(r.date_added.toks)
          /\ d.date_added = fromisoformat(r.date_added.toks)
       \/ /\ r.date_added.ty = "num"
          /\ d.date_added = fromtimestamp(r.date_added.toks[1].n)

\* C19: every entity returned by get, list or update holds, in its seven
\* persisted fields, the values of a stored row.
C19_ReturnedEntitiesAreStoredRows ==
    last.op \in ReadOps =>
        \A d \in ListedSet(last.res) : \E r \in view : EntityOfRow(d, r)

\* list has returned an entity while the table also holds a row that does
\* not convert.
C19_Witness ==
    /\ last.op = "list" /\ last.res.kind = "list"
    /\ Len(last.res.docs) = 1
    /\ \E r \in view : _row_to_document(r).doc = NoDocument
    /\ last.params.filters = <<>> /\ last.params.limit = 100

\* C20: initialize on an initialized store returns, and leaves the held
\* connection, the number of open connections, the flag and the rows as
\* they are.
C20_InitializeIdempotent ==
    [][(last'.op = "initialize" /\ _initialized) =>
          /\ last'.res = Returned
          /\ UNCHANGED <<_initialized, _conn, open_conns, db, view, pending>>]_vars

\* initialize has returned on a store that holds an uncommitted write:
\* the store was initialized when it was called.
C20_Witness ==
    /\ last.op = "initialize" /\ last.res = Returned
    /\ _initialized /\ _conn = Connection /\ open_conns = 1
    /\ pending /\ view # db

(***************************************************************************)
(* Properties of close and of initialize after close.                      *)
(***************************************************************************)

\* C21: close releases the held connection and leaves the store
\* uninitialized (no connection held, flag false); close on a store that
\* holds no connection changes nothing and does not raise.
C21_CloseReleases ==
    [][last'.op = "close" =>
          /\ last'.res = Returned
          /\ _conn' = None
          /\ _initialized' = FALSE
          /\ open_conns' = IF _conn # None THEN open_conns - 1 ELSE open_conns
          /\ _conn = None =>
                UNCHANGED <<_initialized, _conn, open_conns, db, view,
                            pending, faults>>]_vars

\* An initialized store that wrote a row has been closed: the connection
\* it held is released.
C21_Witness ==
    /\ last.op = "close"
    /\ last.res = Returned
    /\ _conn = None
    /\ ~_initialized
    /\ open_conns = 0
    /\ \E r \in db : r # LegacyBadDate

\* C23: a storage fault raised while update or delete executes or commits
\* its write never reaches the caller as an exception: update returns no
\* entity and delete returns false.
C23_WriteFaultsAreSwallowed ==
    [][/\ last'.op \in {"update", "delete"}
       /\ last'.fault \in WriteFaults
       => /\ last'.op = "update" => last'.res = Optional(NoDocument)
          /\ last'.op = "delete" => last'.res = Bool(FALSE)]_vars

\* A delete of an existing row failed at its commit and returned false.
C23_Witness ==
    /\ last.op = "delete"
    /\ last.fault \in {"commit_busy", "commit_lost"}
    /\ last.res = Bool(FALSE)
    /\ HasRow(db, last.id)

\* C22: initialize never destroys data.  Neither initialize nor close
\* changes the committed rows, and an initialize that opens the store
\* leaves it usable, with get answering for every id from the rows that
\* were committed before.
C22_InitializeKeepsData ==
    [][last'.op \in {"initialize", "close"} =>
          /\ db' = db
          /\ (last'.op = "initialize" /\ ~_initialized
                    /\ last'.res = Returned) =>
                /\ _initialized' /\ _conn' # None
                /\ schema # NoTable => schema' = schema
                /\ \A id \in Ids :
                      get_document(view', id) = get_document(db, id)
                /\ \A p \in ListCalls :
                      list_documents(view', p) = list_documents(db, p)]_vars

\* A store closed over committed rows has been initialized again and
\* sees those rows.
C22_Witness ==
    /\ last.op = "initialize"
    /\ last.res = Returned
    /\ _initialized
    /\ db \in ReopenTables
    /\ view = db
    /\ \E id \in Ids : get_document(view, id).kind = "Document"

(***************************************************************************)
(* Properties of the conversion of a row.                                  *)
(***************************************************************************)

\* The datetime a stored date_added stands for, where it has an accepted
\* form: the datetime whose isoformat() is the text, the naive datetime of
\* the epoch seconds, or the datetime object itself.
Decodes(v, d) ==
    CASE v.ty = "text" -> isoformat(d) = v.toks
      [] v.ty = "num" -> d = datetime(v.toks[1].n, 0, Naive)
      [] v.ty = "datetime" -> d = v.toks[1]
      [] OTHER -> FALSE

AcceptedDate(v) ==
    \/ v.ty = "text" /\ IsIsoText(v.toks)
    \/ v.ty \in {"num", "datetime"}

\* C24: the conversion accepts a date_added that is ISO-8601 text, a
\* number of epoch seconds or a datetime object, giving the entity with
\* that timestamp when the other columns are valid; for a date_added of
\* any other form it returns no entity; it never raises.
C24_DateAddedForms ==
    last.op = "_row_to_document" =>
        LET r == row_arg[1]
            v == r.date_added
            valid == /\ r.title # NULL
                     /\ r.document_type \in {"pdf", "docx", "html", "txt", "md"}
        IN  /\ last.res.kind \in {"Document", "None"}
            /\ ~AcceptedDate(v) => last.res.kind = "None"
            /\ AcceptedDate(v) /\ valid =>
                  /\ last.res.kind = "Document"
                  /\ Decodes(v, last.res.docs[1].date_added)

\* A row whose date_added is a number has been converted to an entity.
C24_Witness ==
    /\ last.op = "_row_to_document"
    /\ row_arg[1].date_added.ty = "num"
    /\ last.res.kind = "Document"
    /\ last.res.docs[1].date_added = datetime(row_arg[1].date_added.toks[1].n, 0, Naive)

(***************************************************************************)
(* Properties of the document service and of init-db.                      *)
(***************************************************************************)

\* C25: DocumentService.add_document keeps earlier documents: after n
\* add_document calls with n <= top_k, search_documents returns n results,
\* and the id returned by each call still retrieves that call's text and
\* metadata from the vector database.
C25_AddDocumentKeepsEarlier ==
    /\ \A top_k \in TopKs :
          Len(added) <= top_k => Len(search(vectors, top_k)) = Len(added)
    /\ \A i \in 1..Len(added) :
          LET v == dict_get(vectors, added[i].id)
          IN  /\ v # <<>>
              /\ v[1].text = added[i].text
              /\ v[1].metadata = added[i].metadata

\* C26: after the init-db command the documents table exists and holds no
\* rows, whatever it held before.
C26_InitDbClears ==
    [][last'.op = "init-db" => schema' # NoTable /\ db' = {}]_vars

(***************************************************************************)
(* Properties of MockDocumentStore.                                        *)
(***************************************************************************)

\* What load_document(p) gives in the current state.
Loaded(p) ==
    IF p \notin DOMAIN documents_content THEN Raised("FileNotFoundError")
    ELSE Bytes(documents_content[p])

\* C27: load(p) returns exactly the content last saved under locator p;
\* load of a locator that was never saved or has been deleted raises
\* FileNotFoundError; delete of an absent locator is a silent no-op.
C27_DocumentStoreRoundTrip ==
    [][/\ \A p \in AskedPaths' \cup DOMAIN last_saved' :
             Loaded(p)' =
                 IF p \in DOMAIN last_saved' /\ last_saved'[p] # <<>>
                 THEN Bytes(last_saved'[p][1])
                 ELSE Raised("FileNotFoundError")
       /\ last'.op = "load_document" =>
             /\ last'.res = Loaded(last'.id)
             /\ UNCHANGED <<documents_content, saved_paths>>
       /\ (last'.op = "delete_document"
               /\ last'.id \notin DOMAIN documents_content) =>
             /\ last'.res = Returned
             /\ UNCHANGED <<documents_content, saved_paths>>]_vars

\* A path that was saved, deleted and saved again has been loaded and gave
\* the content of the second save.
C27_Witness ==
    /\ last.op = "load_document"
    /\ last.id \in DOMAIN last_saved
    /\ last.res = Bytes("Other content.")
    /\ \E q \in DOMAIN last_saved : last_saved[q] = <<>>

(***************************************************************************)
(* Properties of MockVectorStore.                                          *)
(***************************************************************************)

\* An argument is provided when it is not None.
Provided(pv) == pv.py # "NoneType"

\* C28: search_similar_chunks raises ValueError exactly when both or
\* neither of query_text and query_embedding are provided; with exactly
\* one provided it returns at most top_k results, all from document_ids
\* when that restriction is given.
C28_SearchArguments ==
    last.op = "search_similar_chunks" =>
        LET p == last.params
            one == Provided(p.query_text) # Provided(p.query_embedding)
        IN  /\ last.res = Raised("ValueError") <=> ~one
            /\ one =>
                  /\ last.res.kind = "list"
                  /\ Len(last.res.docs) <= p.top_k
                  /\ Provided(p.document_ids) =>
                        \A i \in 1..Len(last.res.docs) :
                            last.res.docs[i].document_id
                                \in Elements(p.document_ids.v)

\* C29: delete_document_chunks(d) removes every chunk whose document_id is
\* d together with its embedding, leaves the chunks and embeddings of all
\* other documents in place, and returns True also when d had no chunks.
C29_DeleteDocumentChunks ==
    [][last'.op = "delete_document_chunks" =>
          LET d == last'.id
              removed == {chunks[i].id : i \in {i \in 1..Len(chunks) :
                                                    chunks[i].document_id = d}}
          IN  /\ last'.res = Bool(TRUE)
              /\ chunks' = SelectSeq(chunks, LAMBDA c : c.document_id # d)
              /\ DOMAIN embeddings' = DOMAIN embeddings \ removed
              /\ \A id \in DOMAIN embeddings' : embeddings'[id] = embeddings[id]
              /\ removed = {} => UNCHANGED <<chunks, embeddings>>]_vars

\* The chunks of a document have been deleted while another document's
\* chunk, with its embedding, is still held.
C29_Witness ==
    /\ last.op = "delete_document_chunks"
    /\ last.params.chunks_to_delete # <<>>
    /\ last.res = Bool(TRUE)
    /\ chunks # <<>>
    /\ \A i \in 1..Len(chunks) :
          chunks[i].document_id # last.id /\ chunks[i].id \in DOMAIN embeddings

(***************************************************************************)
(* Properties of the rows the interface leaves behind.                     *)
(***************************************************************************)

\* The rows were all written by add: date_added is the isoformat() text.
WrittenByAdd(rows) ==
    \A r \in rows : r.date_added.ty = "text" /\ IsIsoText(r.date_added.toks)

\* C30: after any sequence of add, update and delete calls on an initially
\* empty table every stored row converts to an entity: get(id) returns an
\* entity exactly when a row for id exists.
C30_StoredRowsStayReadable ==
    _ensure_initialized /\ WrittenByAdd(view) =>
        \A id \in Ids :
            get_document(view, id).kind = "Document" <=> HasRow(view, id)

(***************************************************************************)
(* The flag, the connection held and the connections opened.               *)
(***************************************************************************)

\* C31: between calls the initialized flag is true exactly when a
\* connection is held, and every connection that was opened and not closed
\* is the one held: a failed initialize holds none, a retry leaks none.
C31_FlagIffConnection ==
    /\ _initialized <=> (_conn # None)
    /\ open_conns = (IF _conn = None THEN 0 ELSE 1)

(***************************************************************************)
(* Failure atomicity of update and delete.                                 *)
(***************************************************************************)

\* C32: an update or delete that fails in its write or its commit leaves
\* the rows unchanged: the rows later get and list calls read, and the rows
\* a later commit writes to the file, are those from before the failed call.
C32_FailedWriteChangesNothing ==
    [][last'.op \in {"update", "delete"} /\ last'.fault # ""
          => view' = view /\ pending' = pending /\ db' = db]_vars

(***************************************************************************)
(* The rows a call is not addressed to.                                    *)
(***************************************************************************)

\* The rows of ids other than document_id.
OtherRows(rows, document_id) == {r \in rows : r.id # document_id}

\* C33: an add, update or delete addressed to an id that succeeds, reports
\* not found or fails with a conflict leaves every row of another id
\* unchanged, in what the store reads and in the database file.
C33_OtherRowsUnchanged ==
    [][last'.op \in {"add", "update", "delete"} /\ last'.fault = ""
          => /\ OtherRows(view', last'.id) = OtherRows(view, last'.id)
             /\ OtherRows(db', last'.id) = OtherRows(db, last'.id)]_vars

(***************************************************************************)
(* Overlapping calls on one store.  The methods are coroutines on one      *)
(* event loop: a call runs from one await of the storage driver to the     *)
(* next without interruption, and while it waits calls of other tasks may  *)
(* run.  A step below is one such stretch: what the call does when it      *)
(* resumes, up to and including the statement it submits next (the driver  *)
(* runs the statements of a connection in the order they were submitted).  *)
(* tasks[t] is the call task t is in, with its position (pc) and its       *)
(* locals; connections[i] is true while the i-th connection opened is      *)
(* open.  A statement on a closed connection raises ValueError in the      *)
(* driver, and self._conn.f on None raises AttributeError.                 *)
(***************************************************************************)
\* Calls one task makes, one after the other.
MaxCalls == 2

Tasks == {1, 2}

ConnectionNames ==
    <<Connection, "Connection_2", "Connection_3", "Connection_4",
      "Connection_5", "Connection_6", "Connection_7">>

Idle(calls) ==
    [op |-> "", id |-> "", doc |-> <<>>, updates |-> <<>>, pc |-> "idle",
     conn |-> None, rowcount |-> 0, err |-> "", row |-> <<>>, calls |-> calls]

\* A task between calls remembers which call it made last, and on which id.
After(me) == [Idle(me.calls) EXCEPT !.op = me.op, !.id = me.id]

Begin(me, call) ==
    [Idle(me.calls + 1) EXCEPT !.op = call.op, !.id = call.id, !.doc = call.doc,
                               !.updates = call.updates, !.pc = "start"]

\* The state a step of task t starts from; done holds the result when the
\* step ends the call.
Now(t) ==
    [initialized |-> _initialized, conn |-> _conn, connections |-> connections,
     db |-> db, view |-> view, pending |-> pending, schema |-> schema,
     task |-> tasks[t], done |-> <<>>]

Done(s, res) == [s EXCEPT !.done = <<res>>]

\* What using connection c raises: "" when it is open.
conn_error(s, c) ==
    IF c = None THEN "AttributeError"
    ELSE IF \E i \in 1..Len(s.connections) :
                ConnectionNames[i] = c /\ s.connections[i]
         THEN ""
         ELSE "ValueError"

\* await conn.close() on connection c: what it had not committed is gone.
closed(s, c) ==
    [s EXCEPT !.connections =
                  [i \in 1..Len(s.connections) |->
                      s.connections[i] /\ ConnectionNames[i] # c],
              !.view = IF c = s.conn THEN s.db ELSE @,
              !.pending = IF c = s.conn THEN FALSE ELSE @]

\* await self._conn.commit(), then on at pc; what it raises reaches the
\* caller (it is no aiosqlite.Error).
commit(s, pc) ==
    IF conn_error(s, s.conn) # ""
    THEN Done(s, Raised(conn_error(s, s.conn)))
    ELSE [s EXCEPT !.db = s.view, !.pending = FALSE, !.task.pc = pc]

\* await cursor.close() or cursor.fetchone() of a cursor of the call's
\* connection, then on at pc.
cursor_call(s, pc) ==
    IF conn_error(s, s.task.conn) # ""
    THEN Done(s, Raised(conn_error(s, s.task.conn)))
    ELSE [s EXCEPT !.task.pc = pc]

\* Lines 88-103 with create_metadata_tables (lines 61-74).  The connection
\* opened is a local of the call until line 99 stores it in self._conn.
initialize_steps(s) ==
    CASE s.task.pc = "start" ->
            IF s.initialized THEN Done(s, Returned)
            ELSE [s EXCEPT !.connections = Append(@, TRUE),
                           !.task.conn = ConnectionNames[Len(s.connections) + 1],
                           !.task.pc = "connect"]
      [] s.task.pc = "connect" ->
            [s EXCEPT !.conn = s.task.conn,
                      !.view = s.db,
                      !.pending = FALSE,
                      !.schema = create_table_if_not_exists(@, StoreColumns),
                      !.task.pc = "create_execute"]
      [] s.task.pc = "create_execute" ->
            IF conn_error(s, s.task.conn) # ""
            THEN Done(s, Raised(conn_error(s, s.task.conn)))
            ELSE [s EXCEPT !.db = IF s.conn = s.task.conn
                                  THEN create_metadata_tables(s.view) ELSE @,
                           !.pending = IF s.conn = s.task.conn THEN FALSE ELSE @,
                           !.task.pc = "create_commit"]
      [] OTHER -> Done([s EXCEPT !.initialized = TRUE], Returned)

\* Lines 105-111.
close_steps(s) ==
    CASE s.task.pc = "start" ->
            IF s.conn = None THEN Done(s, Returned)
            ELSE [closed(s, s.conn) EXCEPT !.task.pc = "close"]
      [] OTHER -> Done([s EXCEPT !.conn = None, !.initialized = FALSE], Returned)

\* Lines 168-189.
add_steps(s) ==
    CASE s.task.pc = "start" ->
            IF ~(s.initialized /\ s.conn # None) THEN Done(s, Raised("RuntimeError"))
            ELSE IF conn_error(s, s.conn) # ""
            THEN Done(s, Raised(conn_error(s, s.conn)))
            ELSE LET ins == sql_insert(s.view, document_row(s.task.doc[1]))
                 IN  [s EXCEPT !.view = ins.rows,
                               !.pending = @ \/ ins.err = "",
                               !.task.err = ins.err,
                               !.task.pc = "execute"]
      [] s.task.pc = "execute" ->
            IF s.task.err # "" THEN Done(s, Raised(s.task.err))
            ELSE commit(s, "commit")
      [] OTHER -> Done(s, Returned)

\* Lines 192-200: the guard, the SELECT, fetchone, the cursor closed on
\* leaving the async with, the conversion.
get_steps(s) ==
    CASE s.task.pc = "start" ->
            IF ~(s.initialized /\ s.conn # None) THEN Done(s, Raised("RuntimeError"))
            ELSE IF conn_error(s, s.conn) # ""
            THEN Done(s, Raised(conn_error(s, s.conn)))
            ELSE [s EXCEPT !.task.row = sql_fetchone(s.view, s.task.id),
                           !.task.conn = s.conn,
                           !.task.pc = "select"]
      [] s.task.pc = "select" -> cursor_call(s, "fetchone")
      [] s.task.pc = "fetchone" -> cursor_call(s, "cursor_close")
      [] OTHER ->
            Done(s, get_document(IF s.task.row = <<>> THEN {} ELSE {s.task.row[1]},
                                 s.task.id))

\* Lines 261-303; from "start" of the re-fetch on it is get_document_metadata.
update_steps(s) ==
    CASE s.task.pc = "begin" ->
            LET sets == fields_to_update(s.task.updates)
                u == sql_update(s.view, sets, s.task.id)
            IN  IF ~(s.initialized /\ s.conn # None)
                THEN Done(s, Raised("RuntimeError"))
                ELSE IF DOMAIN sets = {} THEN get_steps([s EXCEPT !.task.pc = "start"])
                ELSE IF conn_error(s, s.conn) # ""
                THEN Done(s, Raised(conn_error(s, s.conn)))
                ELSE [s EXCEPT !.view = u.rows,
                               !.pending = @ \/ u.rowcount > 0,
                               !.task.err = u.err,
                               !.task.rowcount = u.rowcount,
                               !.task.conn = s.conn,
                               !.task.pc = "execute"]
      [] s.task.pc = "execute" ->
            IF s.task.err # "" THEN Done(s, Optional(NoDocument))
            ELSE commit(s, "commit")
      [] s.task.pc = "commit" -> cursor_call(s, "rowcount")
      [] s.task.pc = "rowcount" ->
            IF s.task.rowcount = 0 THEN Done(s, Optional(NoDocument))
            ELSE get_steps([s EXCEPT !.task.pc = "start"])
      [] OTHER -> get_steps(s)

\* Lines 306-318.
delete_steps(s) ==
    CASE s.task.pc = "start" ->
            LET d == sql_delete(s.view, s.task.id)
            IN  IF ~(s.initialized /\ s.conn # None)
                THEN Done(s, Raised("RuntimeError"))
                ELSE IF conn_error(s, s.conn) # ""
                THEN Done(s, Raised(conn_error(s, s.conn)))
                ELSE [s EXCEPT !.view = d.rows,
                               !.pending = @ \/ d.rowcount > 0,
                               !.task.rowcount = d.rowcount,
                               !.task.conn = s.conn,
                               !.task.pc = "execute"]
      [] s.task.pc = "execute" -> commit(s, "commit")
      [] s.task.pc = "commit" -> cursor_call(s, "cursor_close")
      [] OTHER -> Done(s, Bool(s.task.rowcount > 0))

steps(s) ==
    CASE s.task.op = "initialize" -> initialize_steps(s)
      [] s.task.op = "close" -> close_steps(s)
      [] s.task.op = "add" -> add_steps(s)
      [] s.task.op = "get" -> get_steps(s)
      [] s.task.op = "update" ->
            update_steps(IF s.task.pc = "start" THEN [s EXCEPT !.task.pc = "begin"]
                         ELSE s)
      [] OTHER -> delete_steps(s)

\* Task t takes the step that ends in state e.
Run(t, e) ==
    /\ _initialized' = e.initialized
    /\ _conn' = e.conn
    /\ connections' = e.connections
    /\ open_conns' = Cardinality({i \in 1..Len(e.connections) : e.connections[i]})
    /\ db' = e.db
    /\ view' = e.view
    /\ pending' = e.pending
    /\ schema' = e.schema
    /\ tasks' = [tasks EXCEPT ![t] = IF e.done = <<>> THEN e.task
                                      ELSE After(e.task)]
    /\ last' = IF e.done = <<>> THEN last
               ELSE Call(e.task.op, e.task.id, e.task.doc, e.task.updates,
                         NoParams, "", e.done[1])
    /\ UNCHANGED <<faults, mock_metadata, mock_last, pages, components>>

\* The calls the tasks make.
UpdTitleBeta == [k \in {"title"} |-> PyStr("Beta")]

TaskCall(op, id, doc, updates) ==
    [op |-> op, id |-> id, doc |-> doc, updates |-> updates]

TaskCalls(op) ==
    CASE op \in {"initialize", "close"} -> {TaskCall(op, "", <<>>, <<>>)}
      [] op = "add" -> {TaskCall(op, d.id, <<d>>, <<>>) : d \in Docs}
      [] op = "update" ->
            {TaskCall(op, id, <<>>, u) : id \in Ids, u \in {UpdNone, UpdAll, UpdTitleBeta}}
      [] OTHER -> {TaskCall(op, id, <<>>, <<>>) : id \in Ids}

\* A task starts a call of op, or a call of op goes on.
Step(t, op) ==
    \/ /\ tasks[t].pc = "idle"
       /\ tasks[t].calls < MaxCalls
       /\ \E call \in TaskCalls(op) :
              Run(t, steps([Now(t) EXCEPT !.task = Begin(tasks[t], call)]))
    \/ /\ tasks[t].pc # "idle"
       /\ tasks[t].op = op
       /\ Run(t, steps(Now(t)))

\* The store as constructed, or initialized, over an empty table or one
\* with the row of an earlier add.
InitTasks ==
    /\ _initialized \in BOOLEAN
    /\ _conn = (IF _initialized THEN Connection ELSE None)
    /\ connections = (IF _initialized THEN <<TRUE>> ELSE <<>>)
    /\ open_conns = (IF _initialized THEN 1 ELSE 0)
    /\ db \in {{}, {document_row(DocAlpha("a"))}}
    /\ schema = (IF db = {} /\ ~_initialized THEN NoTable ELSE StoreColumns)
    /\ view = db
    /\ pending = FALSE
    /\ faults = 0
    /\ last = NoCall
    /\ tasks = [t \in Tasks |-> Idle(0)]
    /\ mock_metadata = <<>>
    /\ mock_last = <<>>
    /\ pages = <<>>
    /\ row_arg = <<>>
    /\ vectors = <<>>
    /\ added = <<>>
    /\ documents_content = <<>>
    /\ saved_paths = {}
    /\ last_saved = <<>>
    /\ chunks = <<>>
    /\ embeddings = <<>>

NextTasks ==
    \/ \E t \in Tasks : Step(t, "initialize")
    \/ \E t \in Tasks : Step(t, "close")
    \/ \E t \in Tasks : Step(t, "add")
    \/ \E t \in Tasks : Step(t, "get")
    \/ \E t \in Tasks : Step(t, "update")
    \/ \E t \in Tasks : Step(t, "delete")

SpecTasks == InitTasks /\ [][NextTasks]_vars

\* No call is in progress.
Quiet == \A t \in Tasks : tasks[t].pc = "idle"

(***************************************************************************)
(* Properties of overlapping calls.                                        *)
(***************************************************************************)

\* Each task has made one call, of op, and both calls are over.
BothMadeOne(op1, op2) ==
    /\ Quiet
    /\ \A t \in Tasks : tasks[t].calls = 1
    /\ {tasks[t].op : t \in Tasks} = {op1, op2}

\* C34: after two initialize calls on one store, overlapping or not, one
\* connection is open and it is the one the store holds: none is left
\* open and unreferenced.
C34_OverlappingInitialize ==
    BothMadeOne("initialize", "initialize") =>
        /\ open_conns = 1
        /\ _initialized
        /\ conn_error(Now(1), _conn) = ""

\* Task t's call ends in this step.
Completes(t) == tasks'[t].pc = "idle" /\ tasks'[t] # tasks[t]

\* C35: when one task makes a CRUD call and the other a close, and nothing
\* else, the CRUD call ends with its write committed or with the
\* uninitialized error (RuntimeError) - add may also report its conflict -
\* and never with an error of a connection that was released.
C35_CallOverlappingClose ==
    [][\A t, u \in Tasks :
          /\ t # u
          /\ Completes(t)
          /\ tasks'[t].calls = 1
          /\ tasks'[t].op \in {"add", "get", "update", "delete"}
          /\ tasks[u].calls <= 1
          /\ tasks[u].op \in {"", "close"}
          => /\ last'.res.kind \notin {"AttributeError", "ValueError"}
             /\ last'.op = "add" /\ last'.res = Returned
                   => HasRow(db', last'.id)
             /\ last'.op = "update" /\ last'.res.kind = "Document"
                   => get_document(db', last'.id) = last'.res
             /\ last'.op = "delete" /\ last'.res = Bool(TRUE)
                   => ~HasRow(db', last'.id)]_vars

\* C36: when the tasks make one call each on the same id, an update and an
\* update or a delete, an update that returns a document returns one with
\* the value it supplied under every writable key, and an update whose
\* UPDATE changed a row does not report not found.
C36_OverlappingUpdates ==
    [][\A t, u \in Tasks :
          /\ t # u
          /\ Completes(t)
          /\ tasks'[t].calls = 1
          /\ tasks'[t].op = "update"
          /\ tasks[u].calls = 1
          /\ tasks[u].op \in {"update", "delete"}
          /\ tasks[u].id = tasks[t].id
          => /\ last'.res.kind = "Document" =>
                   \A k \in DOMAIN last'.updates \cap WritableKeys :
                       last'.res.docs[1][k] = Supplied(k, last'.updates[k])
             /\ tasks[t].rowcount > 0 => last'.res.kind # "None"]_vars

(***************************************************************************)
(* Paging through one query: a caller lists the pages of limit documents   *)
(* at offsets 0, limit, 2*limit, ... of a table that does not change.      *)
(* pages holds the query and the pages returned so far.                    *)
(***************************************************************************)
\* The largest page size asked for.
MaxLimit == 2

PageQueries ==
    {ListParams(f, 0, k, sb, so) :
        f \in {<<>>, [c \in {"author"} |-> PyStr("Author One")]},
        k \in 1..MaxLimit, sb \in SortColumns, so \in {"asc", "desc"}}

FirstPage ==
    /\ pages = <<>>
    /\ \E p \in PageQueries :
          /\ list_documents_metadata(p)
          /\ pages' = [params |-> p, got |-> <<last'.res.docs>>]
    /\ UNCHANGED <<schema, components, tasks, connections, mock_metadata, mock_last>>

\* The next page, while an offset within the table is left.
NextPage ==
    /\ pages # <<>>
    /\ Len(pages.got) * pages.params.limit < Cardinality(view)
    /\ list_documents_metadata(
          [pages.params EXCEPT !.offset = Len(pages.got) * pages.params.limit])
    /\ pages' = [pages EXCEPT !.got = Append(@, last'.res.docs)]
    /\ UNCHANGED <<schema, components, tasks, connections, mock_metadata, mock_last>>

NextPages == FirstPage \/ NextPage

SpecPages == InitList /\ [][NextPages]_vars

\* The pages one after the other.
RECURSIVE Flatten(_)
Flatten(ps) == IF ps = <<>> THEN <<>> ELSE Head(ps) \o Flatten(Tail(ps))

NextShared == init_db_command \/ initialize \/ close \/ Add

SpecShared == InitApp /\ [][NextShared]_vars

\* C38: when initialize has returned the file's documents table has the
\* seven columns of the store, whatever the file held before, and an add of
\* a valid document whose id is not stored succeeds.
C38_InitializeEnsuresSchema ==
    [][/\ last'.op = "initialize" /\ last'.res = Returned
             => schema' = StoreColumns
       /\ last'.op = "add" /\ _ensure_initialized /\ ~HasRow(view, last'.id)
             => last'.res = Returned /\ HasRow(db', last'.id)]_vars

(***************************************************************************)
(* MockMetadataStore (tests/mocks/store_mocks.py) beside the SQLite store: *)
(* each call is made on both, on the same arguments.  mock_metadata is the *)
(* dict self.metadata, key -> Document; mock_last is what the mock's call  *)
(* returned.  The storage of the SQLite store does not fault here.         *)
(***************************************************************************)
DocumentFields ==
    {"id", "title", "author", "publication_date", "document_type",
     "date_added", "file_path", "metadata", "source"}

\* Document(**data), one field: <<the value the model takes>>, or <<>> when
\* pydantic refuses the value supplied.  The values are those of Updates:
\* strings, None and DocumentType members.
validated(k, pv) ==
    CASE k \in {"id", "title"} ->
            IF pv.py = "str" THEN <<pv.v>> ELSE <<>>
      [] k \in {"author", "publication_date", "file_path", "source"} ->
            IF pv.py = "str" THEN <<pv.v>>
            ELSE IF pv.py = "NoneType" THEN <<None>> ELSE <<>>
      [] k = "document_type" ->
            IF pv.py = "DocumentType" THEN <<pv.v>>
            ELSE IF pv.py = "str" /\ DocumentType(pv.v) \in DocumentTypeMembers
            THEN <<DocumentType(pv.v)>>
            ELSE <<>>
      [] OTHER -> <<>>

\* Lines 57-58.
mock_add_document_metadata(document) ==
    /\ mock_metadata' =
          [k \in DOMAIN mock_metadata \cup {document.id} |->
              IF k = document.id THEN document ELSE mock_metadata[k]]
    /\ mock_last' = Returned

\* Lines 61-63.
mock_get_document_metadata(document_id) ==
    /\ mock_last' = IF document_id \in DOMAIN mock_metadata
                    THEN Optional(<<mock_metadata[document_id]>>)
                    ELSE Optional(NoDocument)
    /\ UNCHANGED mock_metadata

\* Lines 89-103: the fields of the stored document overwritten by updates,
\* validated again; keys that are no fields are ignored by the model.
mock_update_document_metadata(document_id, updates) ==
    IF document_id \notin DOMAIN mock_metadata
    THEN mock_last' = Optional(NoDocument) /\ UNCHANGED mock_metadata
    ELSE LET doc == mock_metadata[document_id]
             keys == DOMAIN updates \cap DocumentFields
             updated == [f \in DocumentFields |->
                            IF f \in keys THEN validated(f, updates[f])[1]
                            ELSE doc[f]]
         IN  IF \E k \in keys : validated(k, updates[k]) = <<>>
             THEN mock_last' = Optional(NoDocument) /\ UNCHANGED mock_metadata
             ELSE /\ mock_metadata' = [mock_metadata EXCEPT ![document_id] = updated]
                  /\ mock_last' = Optional(<<updated>>)

\* Lines 105-110.
mock_delete_document_metadata(document_id) ==
    IF document_id \in DOMAIN mock_metadata
    THEN /\ mock_metadata' =
                [k \in DOMAIN mock_metadata \ {document_id} |-> mock_metadata[k]]
         /\ mock_last' = Bool(TRUE)
    ELSE mock_last' = Bool(FALSE) /\ UNCHANGED mock_metadata

\* Documents with empty metadata and no source.
MockDocs == {DocBeta("a"), DocBeta("b"), DocGamma("a")}

\* Both stores empty, the SQLite store initialized, its fault budget spent.
InitMock ==
    /\ _initialized = TRUE
    /\ _conn = Connection
    /\ open_conns = 1
    /\ db = {}
    /\ schema = StoreColumns
    /\ view = db
    /\ pending = FALSE
    /\ faults = MaxFaults
    /\ last = NoCall
    /\ tasks = <<>>
    /\ connections = <<>>
    /\ mock_metadata = <<>>
    /\ mock_last = Returned
    /\ pages = <<>>
    /\ row_arg = <<>>
    /\ vectors = <<>>
    /\ added = <<>>
    /\ documents_content = <<>>
    /\ saved_paths = {}
    /\ last_saved = <<>>
    /\ chunks = <<>>
    /\ embeddings = <<>>

NextMock ==
    \/ \E d \in MockDocs :
          /\ add_document_metadata(d)
          /\ mock_add_document_metadata(d)
          /\ UNCHANGED <<schema, components, tasks, connections, pages>>
    \/ \E id \in Ids :
          /\ get_document_metadata(id)
          /\ mock_get_document_metadata(id)
          /\ UNCHANGED <<schema, components, tasks, connections, pages>>
    \/ \E id \in Ids, u \in Updates :
          /\ update_document_metadata(id, u)
          /\ mock_update_document_metadata(id, u)
          /\ UNCHANGED <<schema, components, tasks, connections, pages>>
    \/ \E id \in Ids :
          /\ delete_document_metadata(id)
          /\ mock_delete_document_metadata(id)
          /\ UNCHANGED <<schema, components, tasks, connections, pages>>

SpecMock == InitMock /\ [][NextMock]_vars

\* C39: after every sequence of add, get, update and delete calls made on
\* both stores, the call made last has given the same result in both: the
\* same entity, boolean or error.
C39_MockAgreesWithStore == mock_last = last.res

====
